---- MODULE Spec2Model ----
(***************************************************************************)
(* A model of the ts-evtx reader: chunk string/template tables and the     *)
(* shared BinaryReader cursor, file/chunk/record iteration and the event   *)
(* stream, the substitution-mode variant decoder, message-template         *)
(* application and the per-record message resolution.                      *)
(*                                                                         *)
(* Each part has its own variables and its own specification; a            *)
(* specification leaves the variables of the other parts at their idle     *)
(* values.                                                                 *)
(***************************************************************************)
EXTENDS Integers, Sequences, FiniteSets, TLC

VARIABLES
  \* --- ChunkHeader tables and the shared reader (ChunkHeader.ts, TemplateNode.ts)
  position,         \* BinaryReader.position of the reader shared with the BXML parse
  strings,          \* ChunkHeader._strings: loaded = FALSE for null, else the cached offsets
  templates,        \* ChunkHeader._templates: the set of cached offsets
  actualTemplates,  \* ChunkHeader._actualTemplates: the set of cached offsets
  chunkImg,         \* the bytes of the chunk, as far as the lookups read them
  lastLookup        \* the last operation: its name, offset and the cursor before it

VARIABLES
  \* --- file, chunk and record iteration and the event stream (FileHeader.ts,
  \*     EvtxFile.ts, ChunkHeader.ts, Record.ts, api.ts readResolvedEvents)
  fileHdr,          \* the file header fields read: nextRecordNumber
  options,          \* EventReadOptions: start, limit, last, eventId
  pc,               \* where the iteration is: start, loop, advance, chunkDone, done, error
  ci,               \* number of chunks FileHeader.chunks() has yielded
  chunk,            \* the bytes of the current chunk, as far as the iteration reads them
  rec,              \* chunk-relative offset of the current Record
  index,            \* readResolvedEvents: index
  yielded,          \* the records EvtxFile.records() has yielded, in order
  emitted,          \* the events the stream has yielded: indexes into yielded
  visited,          \* for each chunk yielded, whether ChunkHeader.verify() holds of it
  fileWarnings      \* number of warnings the file iteration has recorded

\* Substitution values of a record (RootNode, VariantValueParser):
\*   vpos    the cursor of the reader the substitution values are decoded from
\*   vlast   the last call of VariantValueParser.parse: type, declared size, the
\*           cursor at the call and the consumedBytes it returned
\*   vcount  the number of values decoded so far
\*   vdone   the loop over the declarations has ended
\*   vheader the substitution header read: the count in both byte orders, the
\*           count used and the number of declarations read
\*   vxml    the text rendered in each substitution hole of the template
VARIABLES vpos, vlast, vcount, vdone, vheader, vxml

\* Placeholder application (applyMessageTemplate):
\*   atemplate  the template text, a sequence of characters
\*   aargs      the argument vector, a sequence of texts
\*   aresult    the text returned
\*   adone      the function has returned
VARIABLES atemplate, aargs, aresult, adone

\* Assembly of one resolved event (buildResolvedEventFromRecord):
\*   rrec      the record: header record number, the EventRecordID of its rendered
\*             XML, whether the XML names provider and event id, whether its
\*             template is found, and the values of its EventData layout
\*   ropts     includeDiagnostics, messageStrategy, whether a messageProvider is set
\*   rcatalog  the candidate templates the message provider returns
\*   rlookup   the outcome of the loop over the provider names: attempts,
\*             chosenTemplate, providerUsedForSelection
\*   rargs     args and finalArgs of the chosen template
\*   rtext     finalMessageText of the template path and the fallback text
\*   revent    the event returned
\*   rtrace    what the call recorded before the diagnostics level was applied:
\*             the names the provider was asked for, the attempts, the warnings,
\*             the errors and the args the chosen template was applied to
\*   rthrown   the call has thrown instead
\*   rdone     the call is over
VARIABLES rrec, ropts, rcatalog, rlookup, rargs, rtext, revent, rtrace, rthrown, rdone

\* Rendering of the records of the chunk (part 6, on the chunk of part 1):
\*   roots     for each record, the template_offset of its TemplateInstance
\*   rendered  for each record, the XML of its last renderXml
VARIABLES roots, rendered

\* Timestamps (Record.timestampAsDate, filetimeToDate):
\*   tfiletime  the FILETIME converted: a u64 count of 100 ns ticks since
\*              1601-01-01, held as days, milliseconds of the day and ticks of
\*              the millisecond
\*   tdate      the Date returned: days and milliseconds of the day since
\*              1970-01-01
\*   tcall      the conversion called: none, timestampAsDate or filetimeToDate
VARIABLES tfiletime, tdate, tcall

\* Part 8 (binary XML token streams):
\*   bimg       the bytes of the stream, at the data of the first record
\*   bsize      record.size() of the record that holds the stream
\*   bmode      none, top (RootNode), embedded (parseEmbeddedRootNodeAtOffset),
\*              topDone, embeddedDone, or done when the part is idle
\*   bloop      the token loop has not ended by a break
\*   bcur       the cursor of the reader
\*   bcache     the chunk-relative offsets in the template cache of the chunk
\*   blog       the nodes constructed, in the order their construction began
\*   bdeclared  the sum of the declared lengths of the children of the root
\*   bcount     the offset the substitution count was read at, -1 when not read
VARIABLES bimg, bsize, bmode, bloop, bcur, bcache, blog, bdeclared, bcount

\* Part 9 (loading the string table):
\*   simg       what the bytes of the chunk hold: bucket heads, next offsets
\*   sphase     none, bucket (the for loop), chain (the while loop), done,
\*              thrown, or idle when the part is idle
\*   sbucket    the bucket of the for loop, from 1
\*   sofs       ofs of the while loop
\*   smap       the offsets in this._strings
\*   sparses    how often the name string at each offset was parsed
VARIABLES simg, sphase, sbucket, sofs, smap, sparses

\* Part 10 (the records of one chunk):
\*   kchunk     what the bytes of the chunk hold: next_record_offset, headers
\*   kpc        start, loop (at the loop test), advance (behind a yield),
\*              chunkDone (returned), error (thrown), or idle
\*   krec       the chunk-relative offset of `record`
\*   kyielded   the chunk-relative offsets of the records yielded, in order
VARIABLES kchunk, kpc, krec, kyielded

\* Part 11 (the query builder):
\*   qinputs    the input files of the query
\*   qsettings  the settings of the query: last, where, between
\*   qarray     what toArray() returned
\*   qpassed    the events forEach passed to fn, in order
\*   qdone      which of toArray and forEach have run
VARIABLES qinputs, qsettings, qarray, qpassed, qdone

chunkVars == <<position, strings, templates, actualTemplates, chunkImg, lastLookup>>
fileVars == <<fileHdr, options, pc, ci, chunk, rec, index, yielded, emitted, visited,
              fileWarnings>>

variantVars == <<vpos, vlast, vcount, vdone, vheader, vxml>>
applyVars == <<atemplate, aargs, aresult, adone>>
resolveVars == <<rrec, ropts, rcatalog, rlookup, rargs, rtext, revent, rtrace, rthrown,
                 rdone>>
renderVars == <<roots, rendered>>
timeVars == <<tfiletime, tdate, tcall>>
bxmlVars == <<bimg, bsize, bmode, bloop, bcur, bcache, blog, bdeclared, bcount>>
stringVars == <<simg, sphase, sbucket, sofs, smap, sparses>>
recordVars == <<kchunk, kpc, krec, kyielded>>
queryVars == <<qinputs, qsettings, qarray, qpassed, qdone>>
moreVars == <<timeVars, bxmlVars, stringVars, recordVars, queryVars>>
baseVars == <<chunkVars, fileVars, variantVars, applyVars, resolveVars, renderVars>>
vars == <<baseVars, moreVars>>

notChunk == <<fileVars, variantVars, applyVars, resolveVars, renderVars, moreVars>>
notFile == <<chunkVars, variantVars, applyVars, resolveVars, renderVars, moreVars>>
notVariant == <<chunkVars, fileVars, applyVars, resolveVars, renderVars, moreVars>>
notApply == <<chunkVars, fileVars, variantVars, resolveVars, renderVars, moreVars>>
notResolve == <<chunkVars, fileVars, variantVars, applyVars, renderVars, moreVars>>
notRender == <<fileVars, variantVars, applyVars, resolveVars, moreVars>>
notTime == <<baseVars, bxmlVars, stringVars, recordVars, queryVars>>
notBxml == <<baseVars, timeVars, stringVars, recordVars, queryVars>>
notStrings == <<baseVars, timeVars, bxmlVars, recordVars, queryVars>>
notRecords == <<baseVars, timeVars, bxmlVars, stringVars, queryVars>>
notQuery == <<baseVars, timeVars, bxmlVars, stringVars, recordVars>>

NoValue == "none"

(***************************************************************************)
(* Geometry of the file.                                                   *)
(***************************************************************************)
HeaderChunkSize == 4096       \* 0x1000, the file header block
ChunkSize == 65536            \* 0x10000
TemplateHeaderSize == 24      \* next_offset(4) + guid(16, overlapping id) + data_length(4)

Min(a, b) == IF a < b THEN a ELSE b
Max(a, b) == IF a > b THEN a ELSE b

(***************************************************************************)
(* PART 1.  ChunkHeader string/template lookups and the reader cursor.     *)
(* The file of this part holds one chunk, at HeaderChunkSize.              *)
(***************************************************************************)
chunkOffset == HeaderChunkSize
readerSize == HeaderChunkSize + ChunkSize

\* Chunk-relative offsets the lookups are asked for: a template inside the chunk, one
\* whose 24-byte header runs over the end of the file, one beyond the file.
TemplateOffsets == {550, 65530, 70000}
\* String offsets: the chunk start, two name strings, one beyond the file.
StringOffsets == {0, 600, 700, 70000}
\* Places the active BXML parse leaves its cursor at.
CursorPositions == {4632, 4700}

\* What the bytes at a template offset hold: data_length and how many of the child
\* bytes parseChildren consumes before it stops (EndOfStream, error, or dataEnd).
TemplateImages ==
  { [dataLength |-> 0, consumed |-> 0],
    [dataLength |-> 16, consumed |-> 1],
    [dataLength |-> 16, consumed |-> 16] }

\* What the bytes of the string table hold: the head of a bucket chain and, for each
\* name string, its next_offset.
\* (One bucket of the 64 is in use; the heads of the others are 0.)
ChunkImages ==
  { [tpl |-> t, head |-> h, next |-> (600 :> n6 @@ 700 :> n7), nextRecordOffset |-> nro] :
      t \in TemplateImages, h \in {0, 600}, n6 \in {0, 700}, n7 \in {0, 600},
      nro \in {650, 65536} }

\* BinaryReader.seek: throws when the position is outside the buffer.
SeekOk(p) == p >= 0 /\ p <= readerSize

\* BinaryReader.checkBounds for a read of len bytes at offset.
ReadOk(offset, len) == offset >= 0 /\ offset + len <= readerSize

\* new TemplateNode(reader, offset, chunk): what it does to `reader`, whose position
\* is pos0.  ok = FALSE when the constructor throws; pos is where the reader is left.
TemplateNode(pos0, offset, img) ==
  LET abs == chunkOffset + offset IN
  IF ~SeekOk(abs) THEN [ok |-> FALSE, pos |-> pos0]              \* reader.seek(absoluteOffset)
  ELSE IF ~ReadOk(abs, 4) THEN [ok |-> FALSE, pos |-> abs]       \* next_offset
  ELSE IF ~ReadOk(abs + 4, 4) THEN [ok |-> FALSE, pos |-> abs + 4]   \* template_id
  ELSE IF ~ReadOk(abs + 4, 16) THEN [ok |-> FALSE, pos |-> abs + 4]  \* guid
  ELSE IF ~ReadOk(abs + 20, 4) THEN [ok |-> FALSE, pos |-> abs + 20] \* data_length
  ELSE IF img.tpl.dataLength = 0
       THEN [ok |-> TRUE, pos |-> abs + TemplateHeaderSize]      \* parseChildren returns
       ELSE [ok |-> TRUE, pos |-> abs + TemplateHeaderSize + img.tpl.consumed]

\* A cloned reader is another object: whatever the constructor does to it, the shared
\* reader keeps its position.
TemplateNodeOnClone(pos0, offset, img) ==
  [ok |-> TemplateNode(0, offset, img).ok, pos |-> pos0]

\* new NameStringNode(cloned, ...) after cloned.seek(chunk.offset + offset): it reads
\* next(4), hash(2), length(2) and the characters from the clone.
NameStringOk(offset) == SeekOk(chunkOffset + offset) /\ ReadOk(chunkOffset + offset, 8)

StringNext(offset, img) == IF offset \in DOMAIN img.next THEN img.next[offset] ELSE 0

\* The chain walk of _loadStrings for one bucket head: the offsets it adds to the map.
\* It stops at 0, at an offset >= nextRecordOffset and at an offset already in the map.
RECURSIVE LoadChain(_, _, _)
LoadChain(ofs, have, img) ==
  IF ~(ofs > 0 /\ ofs < img.nextRecordOffset) THEN have
  ELSE IF ofs \in have THEN have
  ELSE LET nxt == StringNext(ofs, img)
           got == have \cup {ofs}
       IN IF nxt = 0 \/ nxt \in got THEN got ELSE LoadChain(nxt, got, img)

\* ChunkHeader._loadStrings: offset 0 first, then the bucket chains.
LoadStrings(img) == LoadChain(img.head, {0}, img)

StringsLoaded(img) == IF strings.loaded THEN strings.offsets ELSE LoadStrings(img)

Looked(op, offset) == [op |-> op, before |-> position]

Idle_Chunk ==
  /\ position = 0
  /\ strings = [loaded |-> FALSE, offsets |-> {}]
  /\ templates = {}
  /\ actualTemplates = {}
  /\ chunkImg = NoValue
  /\ lastLookup = [op |-> "seek", before |-> 0]

Start_Chunk ==
  /\ position \in CursorPositions
  /\ strings = [loaded |-> FALSE, offsets |-> {}]
  /\ templates = {}
  /\ actualTemplates = {}
  /\ chunkImg \in ChunkImages
  /\ lastLookup = [op |-> "seek", before |-> 0]

\* The active BXML parse moves its cursor (RootNode: r.seek, r.u32le ...).
ParseSeek ==
  \E p \in CursorPositions :
    /\ position' = p
    /\ lastLookup' = [op |-> "seek", before |-> position]
    /\ UNCHANGED <<strings, templates, actualTemplates, chunkImg>>
    /\ UNCHANGED notChunk

\* ChunkHeader.addString(offset): loads the table when it is not loaded, then parses
\* the name string from a cloned reader and caches it.  A string that cannot be read
\* makes addString throw after the table was loaded.
addString ==
  \E offset \in StringOffsets :
    /\ strings' = [loaded |-> TRUE,
                   offsets |-> IF NameStringOk(offset)
                               THEN StringsLoaded(chunkImg) \cup {offset}
                               ELSE StringsLoaded(chunkImg)]
    /\ position' = position
    /\ lastLookup' = Looked("addString", offset)
    /\ UNCHANGED <<templates, actualTemplates, chunkImg>>
    /\ UNCHANGED notChunk

\* ChunkHeader.getString(offset) / strings(): loads the table when it is not loaded.
getString ==
  \E offset \in StringOffsets :
    /\ strings' = [loaded |-> TRUE, offsets |-> StringsLoaded(chunkImg)]
    /\ position' = position
    /\ lastLookup' = Looked("getString", offset)
    /\ UNCHANGED <<templates, actualTemplates, chunkImg>>
    /\ UNCHANGED notChunk

\* ChunkHeader.addTemplate(offset): cached, or parsed from a cloned reader.
AddTemplateResult(pos0, offset, img) == TemplateNodeOnClone(pos0, offset, img)

addTemplate ==
  \E offset \in TemplateOffsets :
    LET res == IF offset \in templates
               THEN [ok |-> TRUE, pos |-> position]
               ELSE AddTemplateResult(position, offset, chunkImg)
    IN /\ templates' = IF res.ok THEN templates \cup {offset} ELSE templates
       /\ position' = res.pos
       /\ lastLookup' = Looked("addTemplate", offset)
       /\ UNCHANGED <<strings, actualTemplates, chunkImg>>
       /\ UNCHANGED notChunk

\* ChunkHeader.getTemplate(offset): cached, or new TemplateNode(this.r, offset, this)
\* on the shared reader; a throwing constructor is caught and null returned.
GetTemplateResult(pos0, offset, img) == TemplateNode(pos0, offset, img)

getTemplate ==
  \E offset \in TemplateOffsets :
    LET res == IF offset \in templates
               THEN [ok |-> TRUE, pos |-> position]
               ELSE GetTemplateResult(position, offset, chunkImg)
    IN /\ templates' = IF res.ok THEN templates \cup {offset} ELSE templates
       /\ position' = res.pos
       /\ lastLookup' = Looked("getTemplate", offset)
       /\ UNCHANGED <<strings, actualTemplates, chunkImg>>
       /\ UNCHANGED notChunk

\* ChunkHeader.getActualTemplate(offset): cached, or getTemplate(offset) wrapped in
\* an ActualTemplateNode (which reads no bytes).
getActualTemplate ==
  \E offset \in TemplateOffsets :
    LET res == IF offset \in actualTemplates \/ offset \in templates
               THEN [ok |-> TRUE, pos |-> position]
               ELSE GetTemplateResult(position, offset, chunkImg)
    IN /\ templates' = IF res.ok THEN templates \cup {offset} ELSE templates
       /\ actualTemplates' = IF res.ok THEN actualTemplates \cup {offset}
                             ELSE actualTemplates
       /\ position' = res.pos
       /\ lastLookup' = Looked("getActualTemplate", offset)
       /\ UNCHANGED <<strings, chunkImg>>
       /\ UNCHANGED notChunk

NextOf_Chunk ==
  \/ ParseSeek
  \/ addString
  \/ getString
  \/ addTemplate
  \/ getTemplate
  \/ getActualTemplate

(***************************************************************************)
(* PART 2.  File, chunk and record iteration; the resolved-event stream.   *)
(*                                                                         *)
(* The file holds NumChunks chunks.  The bytes of a chunk are drawn when    *)
(* FileHeader.chunks() reaches it (the file is immutable and every chunk is *)
(* read once).  Of a chunk the iteration reads the header fields and, at    *)
(* each record position it reaches, a record header.  Record sizes are      *)
(* drawn from RecordSizes, so the record positions of a chunk are           *)
(* FirstRecordOffset and FirstRecordOffset + HalfRecord, and two records of *)
(* HalfRecord bytes fill the chunk to its last byte.  The first bytes of a  *)
(* chunk are never the record magic.                                       *)
(***************************************************************************)
NumChunks == 2
MaxRecNum == 2
MaxNextRecordNumber == 3
MaxStart == 2
MaxLimit == 1
MaxLast == 2

FirstRecordOffset == 512      \* 0x200
MaxRecordSize == 65536        \* 0x10000
HalfRecord == (ChunkSize - FirstRecordOffset) \div 2     \* 0x7f00
OversizeRecord == MaxRecordSize + 1

fileSize == HeaderChunkSize + NumChunks * ChunkSize

EventIds == {1, 2}
\* The eventId option: absent (no filter) or one event id.
EventIdOptions == {{}, {1}}
RecordSizes == {0, HalfRecord, OversizeRecord}
SlotOffsets == {FirstRecordOffset, FirstRecordOffset + HalfRecord}

\* The bytes at a record position: a record header with the magic 0x00002a2a, or not.
BadSlot == [magic |-> FALSE, size |-> 0, num |-> 0, eventId |-> 0]
EndSlots == { [magic |-> TRUE, size |-> sz, num |-> 0, eventId |-> 0] :
                sz \in {0, OversizeRecord} }
RecordSlots == { [magic |-> TRUE, size |-> HalfRecord, num |-> n, eventId |-> e] :
                   n \in 1..MaxRecNum, e \in EventIds }
Slots == {BadSlot} \cup EndSlots \cup RecordSlots

VerifyFailures == {"none", "checksum"}

\* The second slot is read only behind a record in the first: where it is not
\* read its bytes are left out of the choice.
SlotPairs == { p \in Slots \X Slots : p[1] \notin RecordSlots => p[2] = BadSlot }

ChunkContents ==
  { [verifyFail |-> v, nextRecordOffset |-> nro,
     slot |-> (FirstRecordOffset :> p[1] @@ (FirstRecordOffset + HalfRecord) :> p[2])] :
      v \in VerifyFailures, nro \in {FirstRecordOffset, FirstRecordOffset + HalfRecord, ChunkSize},
      p \in SlotPairs }

NoChunk == [verifyFail |-> "none", nextRecordOffset |-> 0,
            slot |-> (FirstRecordOffset :> BadSlot @@ (FirstRecordOffset + HalfRecord) :> BadSlot)]

\* ChunkHeader.verify(): magic and both checksums.
ChunkVerify(c) == c.verifyFail = "none"

\* Absolute offset of chunk number i (1-based), FileHeader.chunks().
ChunkOffsetOf(i) == HeaderChunkSize + (i - 1) * ChunkSize

\* new Record(r, offset, chunk) at chunk-relative offset rel of chunk number i:
\* "overrun" when reading magic or size runs over the end of the buffer (a plain
\* Error of BinaryReader.checkBounds), "invalid" for InvalidRecordException, else "ok".
RecordCtor(i, c, rel) ==
  LET abs == ChunkOffsetOf(i) + rel IN
  IF abs + 4 > fileSize THEN "overrun"
  ELSE IF rel \notin SlotOffsets THEN "invalid"       \* the magic of the next chunk
  ELSE IF ~c.slot[rel].magic THEN "invalid"
  ELSE IF abs + 8 > fileSize THEN "overrun"
  ELSE IF c.slot[rel].size > MaxRecordSize THEN "invalid"
  ELSE "ok"

\* The catch clauses of ChunkHeader.records(): InvalidRecordException ends the
\* iteration of the chunk, any other error is thrown on.
RecordsCatch(outcome) ==
  CASE outcome = "ok" -> "loop"
    [] outcome = "invalid" -> "chunkDone"
    [] OTHER -> "error"

\* EvtxFile.records(): for (const chunk of this.chunks()) yield* chunk.records().
\* Whether the records of a chunk are iterated at all.
IteratesChunk(c) == TRUE

\* readResolvedEvents: startAt.
StartAt(opts, hdr) ==
  IF opts.last > 0
  THEN Max(1, (hdr.nextRecordNumber - 1) - opts.last + 1)
  ELSE opts.start

\* readResolvedEvents: the pre-filter on the event id.
PassesFilters(opts, slot) ==
  opts.eventId = {} \/ slot.eventId \in opts.eventId

\* An emission that puts the newest event first.
EmitEventFirst(out, idx) == <<idx>> \o out

\* readResolvedEvents: yield ev.
EmitEvent(out, idx) == Append(out, idx)

Idle_File ==
  /\ fileHdr = [nextRecordNumber |-> 1]
  /\ options = [start |-> 1, limit |-> 0, last |-> 0, eventId |-> {}]
  /\ pc = "idle"
  /\ ci = 0
  /\ chunk = NoChunk
  /\ rec = 0
  /\ index = 0
  /\ yielded = <<>>
  /\ emitted = <<>>
  /\ visited = <<>>
  /\ fileWarnings = 0

Start_File ==
  /\ fileHdr \in [nextRecordNumber : 1..MaxNextRecordNumber]
  /\ options \in { o \in [start : 1..MaxStart, limit : 0..MaxLimit, last : 0..MaxLast,
                          eventId : EventIdOptions] : o.last > 0 => o.start = 1 }
  /\ pc = "start"
  /\ ci = 0
  /\ chunk = NoChunk
  /\ rec = 0
  /\ index = 0
  /\ yielded = <<>>
  /\ emitted = <<>>
  /\ visited = <<>>
  /\ fileWarnings = 0

\* FileHeader.chunks() yields the next ChunkHeader and ChunkHeader.records() builds
\* the first Record of it.
OpenChunk ==
  /\ pc \in {"start", "chunkDone"}
  /\ ci < NumChunks
  /\ ChunkOffsetOf(ci + 1) + ChunkSize <= fileSize
  /\ \E c \in ChunkContents :
       /\ chunk' = c
       /\ visited' = Append(visited, ChunkVerify(c))
       /\ pc' = IF IteratesChunk(c)
                THEN RecordsCatch(RecordCtor(ci + 1, c, FirstRecordOffset))
                ELSE "chunkDone"
  /\ ci' = ci + 1
  /\ rec' = FirstRecordOffset
  /\ UNCHANGED <<fileHdr, options, index, yielded, emitted, fileWarnings>>
  /\ UNCHANGED notFile

\* A loop test of ChunkHeader.records() without the test of the size.
RecordsLoopTestOffsetOnly(c, rel) == rel < c.nextRecordOffset

\* ChunkHeader.records(): record.offset < endOffset && record.length() > 0.
RecordsLoopTest(c, rel) == rel < c.nextRecordOffset /\ c.slot[rel].size > 0

\* ChunkHeader.records(): the loop test fails and the chunk is finished.
EndOfRecords ==
  /\ pc = "loop"
  /\ ~RecordsLoopTest(chunk, rec)
  /\ pc' = "chunkDone"
  /\ UNCHANGED <<fileHdr, options, ci, chunk, rec, index, yielded, emitted, visited,
                 fileWarnings>>
  /\ UNCHANGED notFile

\* ChunkHeader.records() yields the record and the body of the loop of
\* readResolvedEvents runs on it.
YieldRecord ==
  /\ pc = "loop"
  /\ RecordsLoopTest(chunk, rec)
  /\ LET slot == chunk.slot[rec]
         idx == Len(yielded) + 1
     IN /\ yielded' = Append(yielded, [chunk |-> ci, offset |-> rec, num |-> slot.num])
        /\ index' = index + 1
        /\ IF index + 1 < StartAt(options, fileHdr)
           THEN /\ pc' = "advance"                                    \* continue
                /\ UNCHANGED emitted
           ELSE IF options.limit > 0 /\ Len(emitted) >= options.limit
           THEN /\ pc' = "done"                                       \* break
                /\ UNCHANGED emitted
           ELSE IF ~PassesFilters(options, slot)
           THEN /\ pc' = "advance"                                    \* continue
                /\ UNCHANGED emitted
           ELSE /\ pc' = "advance"
                /\ emitted' = EmitEvent(emitted, idx)
  /\ UNCHANGED <<fileHdr, options, ci, chunk, rec, visited, fileWarnings>>
  /\ UNCHANGED notFile

\* ChunkHeader.records(): record = new Record(r, record.offset + record.length()).
AdvanceRecord ==
  /\ pc = "advance"
  /\ LET nxt == rec + chunk.slot[rec].size IN
       /\ rec' = nxt
       /\ pc' = RecordsCatch(RecordCtor(ci, chunk, nxt))
  /\ UNCHANGED <<fileHdr, options, ci, chunk, index, yielded, emitted, visited,
                 fileWarnings>>
  /\ UNCHANGED notFile

\* FileHeader.chunks() has no chunk left: the stream ends.
EndOfFile ==
  /\ pc \in {"start", "chunkDone"}
  /\ ~(ci < NumChunks /\ ChunkOffsetOf(ci + 1) + ChunkSize <= fileSize)
  /\ pc' = "done"
  /\ UNCHANGED <<fileHdr, options, ci, chunk, rec, index, yielded, emitted, visited,
                 fileWarnings>>
  /\ UNCHANGED notFile

NextOf_File ==
  \/ OpenChunk
  \/ EndOfRecords
  \/ YieldRecord
  \/ AdvanceRecord
  \/ EndOfFile

(***************************************************************************)
(* PART 3.  Substitution values: RootNode's substitution header, its loop   *)
(* over the declarations, VariantValueParser.parse(type, declaredSize), and *)
(* the rendering of the substitution holes of the template.                 *)
(***************************************************************************)
MaxValues == 2
MaxSubAuthorities == 2
VariantReaderSize == 24
MaxHoles == 2

SanityBound == 1024

\* The four bytes at the substitution header, and the counts they hold for which
\* the loop over the declarations stays within MaxValues.
ByteValues == {0, 1, 2, 4}

\* r.u32le() and r.u32be() of four bytes.
u32le(b) == b[1] + 256 * b[2] + 65536 * b[3] + 16777216 * b[4]
u32be(b) == b[4] + 256 * b[3] + 65536 * b[2] + 16777216 * b[1]

\* substitutionCount: the big-endian count when that is within the sanity
\* bound, else the little-endian count.
substitutionCount(b) ==
  IF u32be(b) > 0 /\ u32be(b) < SanityBound THEN u32be(b) ELSE u32le(b)

\* The sanity check of the count.
CountAccepted(count) == count > 0 /\ count < SanityBound

HeaderBytes ==
  { b \in [1..4 -> ByteValues] :
      CountAccepted(substitutionCount(b)) => substitutionCount(b) <= MaxValues }

\* The declarations read: 4 bytes each, until count are read or 4 bytes do not fit.
DeclarationsRead(count, pos) == Min(count, (VariantReaderSize - pos) \div 4)

NoHeader == [read |-> FALSE, le |-> 0, be |-> 0, count |-> 0, decls |-> 0]

\* The decimal text of a substitution id.
IdText(id) == <<"0", "1", "2", "3">>[id + 1]

\* ActualTemplateNode.renderNode of the substitution node subId with n
\* substitutions: the value (here v) when there is one, else a marker.
renderNode(subId, n) ==
  IF subId < n THEN <<"v">> ELSE <<"[SUBSTITUTION:", IdText(subId), "]">>

DeclaredSizes == {0, 1, 2, 4, 8, 12, 16}

\* The members of the VariantType enum, and a type code that is not one.
FixedTypes ==
  {"SignedByte", "UnsignedByte", "SignedWord", "UnsignedWord", "SignedDWord",
   "UnsignedDWord", "SignedQWord", "UnsignedQWord", "Float", "Double", "Boolean",
   "Guid", "Size", "FileTime", "SystemTime", "Hex32", "Hex64"}
SizedTypes == {"WString", "String", "Binary", "BXml", "WStringArray"}
VariantTypes == {"Null", "Sid", "Unknown"} \cup FixedTypes \cup SizedTypes

\* The bytes the case of a fixed-size type reads.
IntrinsicSize(type) ==
  CASE type \in {"SignedByte", "UnsignedByte", "Boolean"} -> 1
    [] type \in {"SignedWord", "UnsignedWord"} -> 2
    [] type \in {"SignedDWord", "UnsignedDWord", "Float", "Size", "Hex32"} -> 4
    [] type \in {"SignedQWord", "UnsignedQWord", "Double", "FileTime", "Hex64"} -> 8
    [] type \in {"Guid", "SystemTime"} -> 16

\* parseSid reads revision, count, 6 bytes of authority and count sub-authorities.
SidSize(count) == 8 + 4 * count

\* The catch clause of parse: the cursor is put at start + expectedLength.
ParseCatch(start, d) == [pos |-> start + d, consumed |-> d]

\* A case that reads n bytes from the cursor, whatever the declared size.
ReadIntrinsic(start, n, d) ==
  IF start + n > VariantReaderSize
  THEN ParseCatch(start, d)
  ELSE [pos |-> start + n, consumed |-> n]

\* VariantValueParser.parse(type, expectedLength) with the cursor at start and
\* count the second byte of the value: the cursor and consumedBytes it leaves.
parse(type, d, start, count) ==
  CASE type = "Null" -> [pos |-> start + d, consumed |-> d]
    [] type \in SizedTypes ->
         IF d = 0 THEN [pos |-> start, consumed |-> 0]
         ELSE IF start + d > VariantReaderSize THEN ParseCatch(start, d)
         ELSE [pos |-> start + d, consumed |-> d]
    [] type \in FixedTypes -> ReadIntrinsic(start, IntrinsicSize(type), d)
    [] type = "Sid" -> ReadIntrinsic(start, SidSize(count), d)
    [] OTHER ->
         IF d > 0
         THEN IF start + d > VariantReaderSize THEN ParseCatch(start, d)
              ELSE [pos |-> start + d, consumed |-> d]
         ELSE [pos |-> start, consumed |-> 0]

NoParse == [type |-> "none", declared |-> 0, start |-> 0, consumed |-> 0]

Idle_Variant ==
  /\ vpos = 0
  /\ vlast = NoParse
  /\ vcount = 0
  /\ vdone = TRUE
  /\ vheader = NoHeader
  /\ vxml = <<>>

Start_Variant ==
  /\ vpos \in {0, 3}
  /\ vlast = NoParse
  /\ vcount = 0
  /\ vdone = FALSE
  /\ vheader = NoHeader
  /\ vxml = <<>>

\* RootNode: the count at the header passes the sanity check; the declarations
\* are read.
ReadHeader ==
  /\ ~vdone
  /\ ~vheader.read
  /\ \E b \in HeaderBytes :
       LET count == substitutionCount(b)
           decls == DeclarationsRead(count, vpos + 4)
       IN /\ CountAccepted(count)
          /\ vheader' = [read |-> TRUE, le |-> u32le(b), be |-> u32be(b),
                          count |-> count, decls |-> decls]
          /\ vpos' = vpos + 4 + 4 * decls
  /\ UNCHANGED <<vlast, vcount, vdone, vxml>>
  /\ UNCHANGED notVariant

\* RootNode: the count is 0 or fails the sanity check; nothing more is read.
RejectHeader ==
  /\ ~vdone
  /\ ~vheader.read
  /\ \E b \in HeaderBytes :
       LET count == substitutionCount(b) IN
         /\ ~CountAccepted(count)
         /\ vheader' = [read |-> TRUE, le |-> u32le(b), be |-> u32be(b),
                         count |-> count, decls |-> 0]
  /\ vpos' = vpos + 4
  /\ vdone' = TRUE
  /\ UNCHANGED <<vlast, vcount, vxml>>
  /\ UNCHANGED notVariant

\* RootNode: the next declaration fits the buffer and its value is decoded.
SubstitutionValue ==
  /\ ~vdone
  /\ vheader.read
  /\ vcount < vheader.decls
  /\ \E type \in VariantTypes, d \in DeclaredSizes, count \in 0..MaxSubAuthorities :
       /\ vpos + d <= VariantReaderSize
       /\ LET res == parse(type, d, vpos, count) IN
            /\ vpos' = res.pos
            /\ vlast' = [type |-> type, declared |-> d, start |-> vpos,
                         consumed |-> res.consumed]
  /\ vcount' = vcount + 1
  /\ UNCHANGED <<vdone, vheader, vxml>>
  /\ UNCHANGED notVariant

\* RootNode: the next declaration runs over the buffer; the loop breaks.
TruncatedValue ==
  /\ ~vdone
  /\ vheader.read
  /\ vcount < vheader.decls
  /\ \E d \in DeclaredSizes : vpos + d > VariantReaderSize
  /\ vdone' = TRUE
  /\ UNCHANGED <<vpos, vlast, vcount, vheader, vxml>>
  /\ UNCHANGED notVariant

\* RootNode: no declaration is left.
ValuesDone ==
  /\ ~vdone
  /\ vheader.read
  /\ vcount = vheader.decls
  /\ vdone' = TRUE
  /\ UNCHANGED <<vpos, vlast, vcount, vheader, vxml>>
  /\ UNCHANGED notVariant

\* Record.renderXml: the template is rendered with the substitutions decoded,
\* one substitution node for each of the ids 0..MaxHoles-1.
RenderTemplate ==
  /\ vdone
  /\ vheader.read
  /\ vxml = <<>>
  /\ vxml' = [k \in 1..MaxHoles |-> renderNode(k - 1, vcount)]
  /\ UNCHANGED <<vpos, vlast, vcount, vdone, vheader>>
  /\ UNCHANGED notVariant

NextOf_Variant ==
  \/ ReadHeader
  \/ RejectHeader
  \/ SubstitutionValue
  \/ TruncatedValue
  \/ ValuesDone
  \/ RenderTemplate

(***************************************************************************)
(* PART 4.  Placeholder application: applyMessageTemplate(template, args).  *)
(* A text is a sequence of characters; the five replace passes run one      *)
(* after the other, each scanning its input from left to right and leaving  *)
(* the text it inserts unscanned.                                           *)
(***************************************************************************)
MaxTemplateLen == 5
MaxArgs == 1
MaxArgLen == 1

Digits == {"0", "1", "2", "3"}
Letters == {"s", "n", "x", "f", "a", "p", "r"}
TemplateChars == {"%", "!", "1", "s", "n", "{", "}"}
ArgChars == {"x"}
AllChars == TemplateChars \cup ArgChars \cup Digits \cup Letters \cup {"NL", " "}

TextsOver(chars, n) == UNION { [1..k -> chars] : k \in 0..n }
ArgVectors == UNION { [1..k -> TextsOver(ArgChars, MaxArgLen)] : k \in 0..MaxArgs }

\* The length of the longest run of characters of set that starts at s[i].
RECURSIVE RunLen(_, _, _)
RunLen(s, i, set) ==
  IF i > Len(s) \/ s[i] \notin set THEN 0 ELSE 1 + RunLen(s, i + 1, set)

DigitValue(c) ==
  CASE c = "1" -> 1
    [] c = "2" -> 2
    [] c = "3" -> 3
    [] OTHER -> 0

\* parseInt(digits, 10).
RECURSIVE parseInt(_)
parseInt(ds) ==
  IF ds = <<>> THEN 0
  ELSE 10 * parseInt(SubSeq(ds, 1, Len(ds) - 1)) + DigitValue(ds[Len(ds)])

\* args[i] ?? '' for the 0-based index i.
ArgOrEmpty(args, i) == IF i + 1 \in 1..Len(args) THEN args[i + 1] ELSE <<>>

\* s.replace(/%(\d+)!([^!]*)!/g, args[n - 1] ?? '') from s[i] on.
RECURSIVE ReplaceFormatted(_, _, _)
ReplaceFormatted(s, i, args) ==
  IF i > Len(s) THEN <<>>
  ELSE LET dn == RunLen(s, i + 1, Digits)
           j == i + 1 + dn
           k == j + 1 + RunLen(s, j + 1, AllChars \ {"!"})
       IN IF /\ s[i] = "%" /\ dn > 0
             /\ j <= Len(s) /\ s[j] = "!"
             /\ k <= Len(s) /\ s[k] = "!"
          THEN ArgOrEmpty(args, parseInt(SubSeq(s, i + 1, j - 1)) - 1)
                 \o ReplaceFormatted(s, k + 1, args)
          ELSE <<s[i]>> \o ReplaceFormatted(s, i + 1, args)

\* s.replace(/%(\d+)/g, args[n - 1] ?? '') from s[i] on.
RECURSIVE ReplacePlain(_, _, _)
ReplacePlain(s, i, args) ==
  IF i > Len(s) THEN <<>>
  ELSE LET dn == RunLen(s, i + 1, Digits) IN
       IF s[i] = "%" /\ dn > 0
       THEN ArgOrEmpty(args, parseInt(SubSeq(s, i + 1, i + dn)) - 1)
              \o ReplacePlain(s, i + 1 + dn, args)
       ELSE <<s[i]>> \o ReplacePlain(s, i + 1, args)

\* s.replace(/%n/g, '\n') from s[i] on.
RECURSIVE ReplaceNewline(_, _)
ReplaceNewline(s, i) ==
  IF i > Len(s) THEN <<>>
  ELSE IF s[i] = "%" /\ i + 1 <= Len(s) /\ s[i + 1] = "n"
       THEN <<"NL">> \o ReplaceNewline(s, i + 2)
       ELSE <<s[i]>> \o ReplaceNewline(s, i + 1)

\* s.replace(/\{(\d+)\}/g, args[n] ?? '') from s[i] on.
RECURSIVE ReplaceBraced(_, _, _)
ReplaceBraced(s, i, args) ==
  IF i > Len(s) THEN <<>>
  ELSE LET dn == RunLen(s, i + 1, Digits)
           j == i + 1 + dn
       IN IF s[i] = "{" /\ dn > 0 /\ j <= Len(s) /\ s[j] = "}"
          THEN ArgOrEmpty(args, parseInt(SubSeq(s, i + 1, j - 1)))
                 \o ReplaceBraced(s, j + 1, args)
          ELSE <<s[i]>> \o ReplaceBraced(s, i + 1, args)

\* s.replace(/![A-Za-z]+!/g, '') from s[i] on.
RECURSIVE StripFormatTokens(_, _)
StripFormatTokens(s, i) ==
  IF i > Len(s) THEN <<>>
  ELSE LET ln == RunLen(s, i + 1, Letters)
           j == i + 1 + ln
       IN IF s[i] = "!" /\ ln > 0 /\ j <= Len(s) /\ s[j] = "!"
          THEN StripFormatTokens(s, j + 1)
          ELSE <<s[i]>> \o StripFormatTokens(s, i + 1)

applyMessageTemplate(template, args) ==
  LET s1 == ReplaceFormatted(template, 1, args)
      s2 == ReplacePlain(s1, 1, args)
      s3 == ReplaceNewline(s2, 1)
      s4 == ReplaceBraced(s3, 1, args)
  IN StripFormatTokens(s4, 1)

Idle_Apply ==
  /\ atemplate = <<>>
  /\ aargs = <<>>
  /\ aresult = <<>>
  /\ adone = TRUE

Start_Apply ==
  /\ atemplate \in TextsOver(TemplateChars, MaxTemplateLen)
  /\ aargs \in ArgVectors
  /\ aresult = <<>>
  /\ adone = FALSE

Apply ==
  /\ ~adone
  /\ aresult' = applyMessageTemplate(atemplate, aargs)
  /\ adone' = TRUE
  /\ UNCHANGED <<atemplate, aargs>>
  /\ UNCHANGED notApply

NextOf_Apply == Apply

(***************************************************************************)
(* PART 5.  Assembly of a resolved event: buildResolvedEventFromRecord.     *)
(*                                                                         *)
(* The record's layout (EventData, or UserData when there is no EventData)  *)
(* is a sequence of <Data> entries, each a name (<<>> when it has none) and *)
(* one substitution whose value is a text.  A record's provider may have an *)
(* alias (an EventSourceName attribute, or the name behind the              *)
(* Microsoft-Windows- prefix) other than its canonical name.  The message   *)
(* provider answers a query for a name with a list of candidate templates   *)
(* or fails.  An absent text (null, undefined) and the empty text are both  *)
(* <<>>: the code tests them by truthiness.                                 *)
(***************************************************************************)
MaxLayout == 2
MaxCandidates == 2

FallbackItemCap == 10

LayoutValues == {<<>>, <<"x">>}
CatalogTemplates == {<<>>, <<"x">>, <<"%", "1">>, <<"%", "1", "%", "2">>}

\* The <Data> entries with a name of names and a value of values, and the layouts
\* of at most n of them.
Entries(names, values) == [name : names, value : values]
Layouts(entries, n) == UNION { [1..k -> entries] : k \in 0..n }

\* A record whose template cannot be loaded renders as <Event/>: its XML names no
\* provider, event id or EventRecordID, and it has no layout.
WellFormedRecord(r) ==
  ~r.actual => (r.layout = <<>> /\ ~r.hasProvider /\ ~r.alias /\ r.xmlRecordId = {})

Records ==
  { r \in [num : 1..MaxRecNum,
           xmlRecordId : {{}} \cup { {n} : n \in 0..MaxRecNum },
           hasProvider : BOOLEAN,
           alias : {FALSE},
           xmlEventId : {1},
           actual : BOOLEAN,
           layout : Layouts(Entries({<<>>}, LayoutValues), MaxLayout)] :
      WellFormedRecord(r) }

ResolveOptions ==
  [includeDiagnostics : {"none", "basic", "full"},
   messageStrategy : {"none", "best-effort", "required"},
   messageProvider : BOOLEAN,
   enableAliasLookup : {TRUE}]

\* What the message provider does on a query for one name.
Answer(candidates) == [fails |-> FALSE, candidates |-> candidates]
Failure == [fails |-> TRUE, candidates |-> <<>>]

CandidateLists(tpls) == UNION { [1..k -> tpls] : k \in 0..MaxCandidates }

Catalogs ==
  { [canonical |-> Answer(c), alias |-> Answer(<<>>)] :
      c \in CandidateLists(CatalogTemplates) }

\* placeholderMax(tpl): the largest N of the %N in tpl, from tpl[i] on.
RECURSIVE PlaceholderMaxFrom(_, _)
PlaceholderMaxFrom(tpl, i) ==
  IF i > Len(tpl) THEN 0
  ELSE LET dn == RunLen(tpl, i + 1, Digits) IN
       IF tpl[i] = "%" /\ dn > 0
       THEN Max(parseInt(SubSeq(tpl, i + 1, i + dn)), PlaceholderMaxFrom(tpl, i + 1 + dn))
       ELSE PlaceholderMaxFrom(tpl, i + 1)

placeholderMax(tpl) == PlaceholderMaxFrom(tpl, 1)

\* args padded with empty texts, or cut, to n entries.
PadOrSlice(args, n) == [k \in 1..n |-> IF k <= Len(args) THEN args[k] ELSE <<>>]

\* ActualTemplateNode.buildArgsFromLayout: one arg for the substitution of each entry.
buildArgsFromLayout(layout) == [k \in 1..Len(layout) |-> layout[k].value]

\* (typeof rec.eventId === 'function') ? rec.eventId() : undefined.  The records
\* the file iteration hands over are Record objects, and Record has no eventId
\* method: the value is undefined, which the test that follows takes like 0.
EventIdOfRecordObject(record) == 0

\* A Record object whose eventId() returned the event id of its XML.
EventIdOfXml(record) == record.xmlEventId

\* byName: the value of the last entry of the layout named name (<<>> if none).
RECURSIVE ByName(_, _)
ByName(layout, name) ==
  IF Len(layout) = 0 THEN <<>>
  ELSE IF layout[Len(layout)].name = name THEN layout[Len(layout)].value
  ELSE ByName(SubSeq(layout, 1, Len(layout) - 1), name)

HasName(layout, name) ==
  name # <<>> /\ \E k \in 1..Len(layout) : layout[k].name = name

\* pick(...names): the value of the first of names the layout has, '' if none.
RECURSIVE Pick(_, _)
Pick(layout, names) ==
  IF Len(names) = 0 THEN <<>>
  ELSE IF HasName(layout, names[1]) THEN ByName(layout, names[1])
  ELSE Pick(layout, Tail(names))

\* The args in the opposite order.
ReversedArgs(record, args) == [k \in 1..Len(args) |-> args[Len(args) + 1 - k]]

\* The provider-specific ordering of the args (RestartManager event ids).
ReorderedArgs(record, args) ==
  LET eventId == EventIdOfRecordObject(record) IN
  CASE eventId = 10000 ->
         << Pick(record.layout, << <<"RmSessionId">>, <<"Session">> >>),
            Pick(record.layout, << <<"UTCStartTime">>, <<"Time">>, <<"StartTime">> >>) >>
    [] eventId = 10001 ->
         << Pick(record.layout, << <<"RmSessionId">>, <<"Session">> >>),
            Pick(record.layout, << <<"UTCStartTime">>, <<"StartTime">>, <<"Time">> >>) >>
    [] eventId = 10010 ->
         << Pick(record.layout,
                 << <<"FullPath">>, <<"Application">>, <<"AppPath">>, <<"DisplayName">> >>),
            Pick(record.layout, << <<"Pid">>, <<"ProcessId">> >>),
            Pick(record.layout, << <<"Reason">>, <<"Message">>, <<"Status">> >>) >>
    [] OTHER -> args

\* buildArgsFromTemplate(rec, template) ?? [].
buildArgsFromTemplate(record, tpl) ==
  LET maxIdx == placeholderMax(tpl)
      args == ReorderedArgs(record, buildArgsFromLayout(record.layout))
  IN IF ~record.actual THEN <<>>
     ELSE IF maxIdx <= 0 THEN <<>>
     ELSE IF Len(args) = 0 THEN <<>>
     ELSE PadOrSlice(args, maxIdx)

\* items.join(' | ').
RECURSIVE JoinItems(_)
JoinItems(items) ==
  IF Len(items) = 0 THEN <<>>
  ELSE IF Len(items) = 1 THEN items[1]
  ELSE items[1] \o <<" ", "|", " ">> \o JoinItems(Tail(items))

IsNonEmpty(text) == text # <<>>

\* String(val).trim(): val without its leading and trailing blanks.
RECURSIVE TrimStart(_)
TrimStart(text) ==
  IF text # <<>> /\ Head(text) = " " THEN TrimStart(Tail(text)) ELSE text

RECURSIVE TrimEnd(_)
TrimEnd(text) ==
  IF text # <<>> /\ text[Len(text)] = " "
  THEN TrimEnd(SubSeq(text, 1, Len(text) - 1)) ELSE text

Trim(text) == TrimEnd(TrimStart(text))

\* `${entry.name}=${trimmed}` for a named entry, trimmed for an unnamed one.
FallbackItem(entry) ==
  IF IsNonEmpty(entry.name) THEN entry.name \o <<"=">> \o Trim(entry.value)
  ELSE Trim(entry.value)

\* Every entry an item, blank or not, capped or not.
RECURSIVE FallbackItemsAll(_, _, _)
FallbackItemsAll(layout, k, cap) ==
  IF k > Len(layout) THEN <<>>
  ELSE <<FallbackItem(layout[k])>> \o FallbackItemsAll(layout, k + 1, cap)

\* The items of the fallback message: the entries with a value, in layout
\* order, until cap of them are collected.
RECURSIVE FallbackItems(_, _, _)
FallbackItems(layout, k, cap) ==
  IF k > Len(layout) \/ cap = 0 THEN <<>>
  ELSE IF ~IsNonEmpty(Trim(layout[k].value)) THEN FallbackItems(layout, k + 1, cap)
  ELSE <<FallbackItem(layout[k])>> \o FallbackItems(layout, k + 1, cap - 1)

\* buildFallbackMessageFromLayouts(rec): the items joined, or null.
buildFallbackMessageFromLayouts(record) ==
  IF ~record.actual \/ Len(record.layout) = 0 THEN <<>>
  ELSE JoinItems(FallbackItems(record.layout, 1, FallbackItemCap))

\* buildDataSectionFromRecord(rec, 'summary'): fieldCount and the number of items.
buildDataSectionFromRecord(record) ==
  [fieldCount |-> IF record.actual THEN Len(record.layout) ELSE 0,
   items |-> IF record.actual
             THEN Len(FallbackItems(record.layout, 1, FallbackItemCap)) ELSE 0]

\* Record.renderXml: <Event/> when the template cannot be loaded.
renderXml(record) == IF record.actual THEN "rendered" ELSE "<Event/>"

\* The score of a candidate in the best-fit selection.
CandidateScore(tpl, layoutCount, nargs) ==
  LET need == placeholderMax(tpl) IN
    (IF need = layoutCount THEN 1000 ELSE 0)
    + (IF need = nargs THEN 500
       ELSE IF need <= nargs THEN 200 + need
       ELSE 50 - (need - nargs))

\* The first candidate with the highest score.
BestIndex(limited, layoutCount, nargs) ==
  CHOOSE j \in 1..Len(limited) :
    \A k \in 1..Len(limited) :
      /\ CandidateScore(limited[k], layoutCount, nargs)
           <= CandidateScore(limited[j], layoutCount, nargs)
      /\ k < j => CandidateScore(limited[k], layoutCount, nargs)
                    < CandidateScore(limited[j], layoutCount, nargs)

\* Whether the provider is asked at all.
ResolutionAttempted(record, opts) ==
  opts.messageStrategy # "none" /\ opts.messageProvider /\ record.hasProvider

\* provNames: the canonical name, then the alias when alias lookup is enabled and
\* the record has an alias other than the canonical name.
ProviderNames(record, opts) ==
  IF opts.enableAliasLookup /\ record.alias
  THEN <<"canonical", "alias">> ELSE <<"canonical">>

Attempt(name, count) ==
  [provider |-> name, candidateCount |-> count,
   reason |-> IF count = 0 THEN "no-candidates" ELSE "none", selected |-> FALSE]

NoQuery == [attempts |-> <<>>, queries |-> <<>>, chosen |-> <<>>, used |-> "none",
            failed |-> FALSE]

\* The loop over provNames from names[i] on: the attempts pushed, the names the
\* provider was asked for, chosenTemplate, providerUsedForSelection, and whether
\* the provider threw.
RECURSIVE QueryNames(_, _, _, _)
QueryNames(names, i, catalog, record) ==
  IF i > Len(names) THEN NoQuery
  ELSE LET name == names[i]
           resp == catalog[name]
           n == Len(resp.candidates)
       IN IF resp.fails
          THEN [NoQuery EXCEPT !.queries = <<name>>, !.failed = TRUE]
          ELSE IF n = 0
          THEN LET rest == QueryNames(names, i + 1, catalog, record) IN
                 [rest EXCEPT !.attempts = <<Attempt(name, 0)>> \o @,
                              !.queries = <<name>> \o @]
          ELSE [attempts |-> <<Attempt(name, n)>>,
                queries |-> <<name>>,
                chosen |-> resp.candidates[
                             BestIndex(resp.candidates, Len(record.layout),
                                       Len(buildArgsFromLayout(record.layout)))],
                used |-> name,
                failed |-> FALSE]

\* The resolution block of buildResolvedEventFromRecord up to chosenTemplate.
Resolution(record, opts, catalog) ==
  IF ResolutionAttempted(record, opts)
  THEN QueryNames(ProviderNames(record, opts), 1, catalog, record)
  ELSE NoQuery

\* chosenTemplate: the best candidate, <<>> when there is none.
ChosenTemplate(record, opts, catalog) == Resolution(record, opts, catalog).chosen

NoSelection ==
  [present |-> FALSE, placeholders |-> 0, fit |-> "none", argsUsed |-> 0,
   hasArgs |-> FALSE, args |-> <<>>]
NoFinal == [present |-> FALSE, message |-> <<>>, from |-> "none"]
NoFallback == [present |-> FALSE, itemCount |-> 0, message |-> <<>>]

\* selection = { templateText, placeholders, fit, argsUsed }, without args.
Selection(record, chosen) ==
  LET need == placeholderMax(chosen)
      args == buildArgsFromTemplate(record, chosen)
      argsUsed == IF need > 0 THEN Min(Len(args), need) ELSE Len(args)
  IN [present |-> TRUE, placeholders |-> need,
      fit |-> IF need = argsUsed THEN "exact"
              ELSE IF need > argsUsed THEN "underflow" ELSE "overflow",
      argsUsed |-> argsUsed, hasArgs |-> FALSE, args |-> <<>>]

\* finalArgs: the args the chosen template is applied to.
FinalArgs(record, chosen) ==
  LET need == placeholderMax(chosen)
      args == buildArgsFromTemplate(record, chosen)
  IN IF need > 0 THEN PadOrSlice(args, need) ELSE args

\* No attempt marked.
MarkNone(attempts, name) == attempts

\* The attempt of provider name marked selected.
MarkSelected(attempts, name) ==
  [k \in 1..Len(attempts) |->
     IF attempts[k].provider = name
          /\ \A j \in 1..(k - 1) : attempts[j].provider # name
     THEN [attempts[k] EXCEPT !.selected = TRUE,
             !.reason = IF name # "canonical" THEN "alias-fallback" ELSE "best-fit"]
     ELSE attempts[k]]

\* A header-only id, whatever the rendered XML says.
EventIdOfHeader(record) == record.num

\* id: the EventRecordID of the rendered XML when it is a non-zero number, else
\* the record number of the header.
EventId(record) ==
  IF record.xmlRecordId # {} /\ record.xmlRecordId # {0}
  THEN CHOOSE n \in record.xmlRecordId : TRUE
  ELSE record.num

\* A selection kept whatever the level, and errors dropped whatever the level.
KeptSelectionPlain(level, selection, args) == selection
DroppedErrors(level, errors) == <<>>

\* What includeDiagnostics keeps of the attempts, the selection, the warnings
\* and the errors.
KeptAttempts(level, attempts) == IF level = "none" THEN <<>> ELSE attempts
KeptSelection(level, selection, args) ==
  IF level = "none" THEN NoSelection
  ELSE IF level = "full" /\ selection.present
  THEN [selection EXCEPT !.hasArgs = TRUE, !.args = args]
  ELSE selection
KeptWarnings(level, warnings) ==
  IF level = "full" THEN warnings
  ELSE IF level = "basic" THEN SubSeq(warnings, 1, Min(1, Len(warnings)))
  ELSE <<>>
KeptErrors(level, errors) == IF level = "full" THEN errors ELSE <<>>

\* args and finalArgs of the chosen template (both [] when none is chosen).
TemplateArgs(record, lookup) ==
  IF IsNonEmpty(lookup.chosen)
  THEN [args |-> buildArgsFromTemplate(record, lookup.chosen),
        finalArgs |-> FinalArgs(record, lookup.chosen)]
  ELSE [args |-> <<>>, finalArgs |-> <<>>]

\* finalMessageText of the template path, and the text of the fallback builder,
\* which runs when the former is empty.
Messages(record, lookup, targs) ==
  LET templateText == IF IsNonEmpty(lookup.chosen)
                      THEN applyMessageTemplate(lookup.chosen, targs.finalArgs)
                      ELSE <<>>
  IN [template |-> templateText,
      fallback |-> IF IsNonEmpty(templateText) THEN <<>>
                   ELSE buildFallbackMessageFromLayouts(record)]

\* if (!finalMessageText && messageStrategy === 'required') throw.
Throws(opts, texts) ==
  ~IsNonEmpty(texts.template) /\ ~IsNonEmpty(texts.fallback)
    /\ opts.messageStrategy = "required"

\* What the call has recorded when it returns: the attempts, the warnings, the
\* errors, the selection, finalFrom and the status.
Recorded(record, lookup, targs, texts) ==
  LET selected == IsNonEmpty(lookup.chosen)
      selection == IF selected THEN Selection(record, lookup.chosen) ELSE NoSelection
      attempts1 == IF selected THEN MarkSelected(lookup.attempts, lookup.used)
                   ELSE lookup.attempts
      warnings1 == IF selected /\ selection.fit # "exact"
                   THEN <<"placeholder/layout mismatch">> ELSE <<>>
      fb == texts.fallback
      attempts2 == IF IsNonEmpty(fb) /\ Len(attempts1) = 0 /\ record.hasProvider
                   THEN <<Attempt("canonical", 0)>> ELSE attempts1
      finalFrom == IF IsNonEmpty(fb) THEN "fallback"
                   ELSE IF selected THEN "template" ELSE "none"
      status == IF finalFrom = "template" THEN "resolved"
                ELSE IF finalFrom = "fallback" THEN "fallback" ELSE "unresolved"
      warnings2 == IF /\ status # "resolved"
                      /\ \A k \in 1..Len(attempts2) : attempts2[k].candidateCount = 0
                      /\ \A k \in 1..Len(warnings1) : warnings1[k] # "No template in catalog"
                   THEN Append(warnings1, "No template in catalog") ELSE warnings1
  IN [queries |-> lookup.queries, failed |-> lookup.failed, attempts |-> attempts2,
      warnings |-> warnings2,
      errors |-> IF lookup.failed THEN <<"provider error">> ELSE <<>>,
      selected |-> selected,
      selection |-> selection,
      finalArgs |-> targs.finalArgs,
      finalFrom |-> finalFrom,
      status |-> status]

\* The event the call returns.
EventOf(record, opts, targs, texts, trace) ==
  LET finalMessageText == IF IsNonEmpty(texts.template) THEN texts.template
                          ELSE texts.fallback
      level == opts.includeDiagnostics
  IN [id |-> EventId(record),
      xml |-> renderXml(record),
      data |-> buildDataSectionFromRecord(record),
      status |-> trace.status,
      attempts |-> KeptAttempts(level, trace.attempts),
      selection |-> KeptSelection(level, trace.selection, targs.args),
      final |-> IF IsNonEmpty(finalMessageText)
                THEN [present |-> TRUE, message |-> finalMessageText,
                      from |-> IF trace.finalFrom = "none" THEN "fallback"
                               ELSE trace.finalFrom]
                ELSE NoFinal,
      fallback |-> IF trace.finalFrom = "fallback"
                   THEN [present |-> TRUE,
                         itemCount |-> buildDataSectionFromRecord(record).fieldCount,
                         message |-> finalMessageText]
                   ELSE NoFallback,
      warnings |-> KeptWarnings(level, trace.warnings),
      errors |-> KeptErrors(level, trace.errors)]

\* buildResolvedEventFromRecord(rec, options) with the provider answering catalog:
\* whether it throws, the event it returns, and what it recorded on the way.
buildResolvedEventFromRecord(record, opts, catalog) ==
  LET lookup == Resolution(record, opts, catalog)
      targs == TemplateArgs(record, lookup)
      texts == Messages(record, lookup, targs)
      trace == Recorded(record, lookup, targs, texts)
  IN [thrown |-> Throws(opts, texts),
      event |-> EventOf(record, opts, targs, texts, trace),
      trace |-> trace]

NoEvent ==
  [id |-> 0, xml |-> "none", data |-> [fieldCount |-> 0, items |-> 0],
   status |-> "none", attempts |-> <<>>, selection |-> NoSelection, final |-> NoFinal,
   fallback |-> NoFallback, warnings |-> <<>>, errors |-> <<>>]

NoTrace ==
  [queries |-> <<>>, failed |-> FALSE, attempts |-> <<>>, warnings |-> <<>>,
   errors |-> <<>>, selected |-> FALSE, selection |-> NoSelection, finalArgs |-> <<>>,
   finalFrom |-> "none", status |-> "none"]

NoArgs == [args |-> <<>>, finalArgs |-> <<>>]
NoTexts == [template |-> <<>>, fallback |-> <<>>]

Idle_Resolve ==
  /\ rrec = [num |-> 1, xmlRecordId |-> {}, hasProvider |-> FALSE, alias |-> FALSE,
             xmlEventId |-> 1, actual |-> FALSE, layout |-> <<>>]
  /\ ropts = [includeDiagnostics |-> "basic", messageStrategy |-> "best-effort",
              messageProvider |-> FALSE, enableAliasLookup |-> TRUE]
  /\ rcatalog = [canonical |-> Answer(<<>>), alias |-> Answer(<<>>)]
  /\ rlookup = NoQuery
  /\ rargs = NoArgs
  /\ rtext = NoTexts
  /\ revent = NoEvent
  /\ rtrace = NoTrace
  /\ rthrown = FALSE
  /\ rdone = TRUE

\* A call on one of records with one of options and one of catalogs.
StartOn(records, opts, catalogs) ==
  /\ rrec \in records
  /\ ropts \in opts
  /\ rcatalog \in catalogs
  /\ rlookup = NoQuery
  /\ rargs = NoArgs
  /\ rtext = NoTexts
  /\ revent = NoEvent
  /\ rtrace = NoTrace
  /\ rthrown = FALSE
  /\ rdone = FALSE

Start_Resolve == StartOn(Records, ResolveOptions, Catalogs)

\* Calls that exercise the lookup: records with and without an alias, alias
\* lookup on and off, and a provider that answers or fails for each name.
ResolverTemplates == {<<>>, <<"x">>, <<"%", "1">>}

ResolverRecords ==
  { r \in [num : {1},
           xmlRecordId : {{}},
           hasProvider : BOOLEAN,
           alias : BOOLEAN,
           xmlEventId : {1},
           actual : BOOLEAN,
           layout : Layouts(Entries({<<>>}, LayoutValues), MaxLayout)] :
      WellFormedRecord(r) }

ResolverOptions ==
  [includeDiagnostics : {"none", "basic", "full"},
   messageStrategy : {"none", "best-effort", "required"},
   messageProvider : BOOLEAN,
   enableAliasLookup : BOOLEAN]

Responses == {Failure} \cup { Answer(c) : c \in CandidateLists(ResolverTemplates) }

ResolverCatalogs == [canonical : Responses, alias : Responses]

Start_Resolver == StartOn(ResolverRecords, ResolverOptions, ResolverCatalogs)

\* Calls that exercise the layout: named and unnamed entries, blank values,
\* layouts longer than the cap of the fallback message, the named entries of a
\* RestartManager event in every order, and templates with %N and {N}.
LayoutTemplates ==
  {<<"x">>, <<"%", "1">>, <<"%", "3">>, <<"%", "1", "{", "1", "}">>, <<"{", "%", "1", "}">>}

NamedValues == {<<>>, <<"x">>, <<" ">>, <<"1">>}
NamedEntries == Entries({<<>>, <<"A">>}, NamedValues)

RestartEntries ==
  { [name |-> <<"FullPath">>, value |-> <<"f">>],
    [name |-> <<"Application">>, value |-> <<"a">>],
    [name |-> <<"Pid">>, value |-> <<"p">>],
    [name |-> <<"Reason">>, value |-> <<"r">>] }

RestartLayouts ==
  { l \in [1..3 -> RestartEntries] : \A i, j \in 1..3 : l[i] = l[j] => i = j }

\* One entry more than the cap, all named A with value x but the j-th, which is
\* unnamed with value 1 (none when j = 0).
LongLayouts ==
  { [k \in 1..(FallbackItemCap + 1) |->
       IF k = j THEN [name |-> <<>>, value |-> <<"1">>]
       ELSE [name |-> <<"A">>, value |-> <<"x">>]] : j \in 0..(FallbackItemCap + 1) }

LayoutRecords ==
  { r \in [num : {1},
           xmlRecordId : {{}},
           hasProvider : BOOLEAN,
           alias : {FALSE},
           xmlEventId : {1, 10010},
           actual : BOOLEAN,
           layout : Layouts(NamedEntries, MaxLayout) \cup RestartLayouts \cup LongLayouts] :
      WellFormedRecord(r) }

LayoutOptions ==
  [includeDiagnostics : {"basic", "full"},
   messageStrategy : {"none", "best-effort", "required"},
   messageProvider : BOOLEAN,
   enableAliasLookup : {TRUE}]

LayoutCatalogs ==
  { [canonical |-> Answer(c), alias |-> Answer(<<>>)] :
      c \in CandidateLists(LayoutTemplates) }

Start_Layout == StartOn(LayoutRecords, LayoutOptions, LayoutCatalogs)

\* The steps of buildResolvedEventFromRecord up to the check of the strategy:
\* the lookup, the args of the chosen template, the two message texts.
Resolved ==
  /\ rlookup' = Resolution(rrec, ropts, rcatalog)
  /\ rargs' = TemplateArgs(rrec, rlookup')
  /\ rtext' = Messages(rrec, rlookup', rargs')
  /\ rtrace' = Recorded(rrec, rlookup', rargs', rtext')

\* The call returns the event.
BuildEvent ==
  /\ ~rdone
  /\ Resolved
  /\ ~Throws(ropts, rtext')
  /\ revent' = EventOf(rrec, ropts, rargs', rtext', rtrace')
  /\ rdone' = TRUE
  /\ UNCHANGED <<rrec, ropts, rcatalog, rthrown>>
  /\ UNCHANGED notResolve

\* The call throws 'Message resolution required but not found'.
BuildThrows ==
  /\ ~rdone
  /\ Resolved
  /\ Throws(ropts, rtext')
  /\ rthrown' = TRUE
  /\ rdone' = TRUE
  /\ UNCHANGED <<rrec, ropts, rcatalog, revent>>
  /\ UNCHANGED notResolve

NextOf_Resolve ==
  \/ BuildEvent
  \/ BuildThrows

(***************************************************************************)
(* PART 6.  Rendering the records of a chunk in any order: Record.root(),   *)
(* Record.renderXml and the template cache of the chunk of part 1.  The     *)
(* chunk holds MaxRenderRecords records; the data of record k starts at one *)
(* of the cursor positions of part 1.                                       *)
(***************************************************************************)
MaxRenderRecords == 2

RecordHeaderSize == 24
StreamStartSize == 4
TemplateInstanceSize == 10

\* this.offset + 0x18 of record k, the records 68 bytes each.
RecordDataOffset(k) == chunkOffset + FirstRecordOffset + 68 * (k - 1) + RecordHeaderSize

\* A RootNode that reads on from the cursor it finds.
RootStartAtCursor(cursor, recordDataOffset) == cursor

\* r.seek(recordDataOffset): where RootNode starts to read, whatever the cursor.
RootStart(cursor, recordDataOffset) == recordDataOffset

\* TemplateInstanceNode.isResidentTemplate for a node that starts at nodePos.
isResidentTemplate(offset, nodePos) == offset > nodePos - chunkOffset

NotRendered == [done |-> FALSE, event |-> FALSE, template |-> 0, subs |-> 0]
EmptyEvent == [done |-> TRUE, event |-> FALSE, template |-> 0, subs |-> 0]

\* new RootNode(r, chunk, record, recordDataOffset) for record k with the cursor
\* at pos and tpls cached: the TemplateInstance it finds (none when it reads
\* elsewhere than at the data of the record), the cursor and the cache it leaves.
\* A resident template is added to the cache from a cloned reader.
RootNode(k, pos, tpls, img, offsets) ==
  LET start == RootStart(pos, RecordDataOffset(k))
      nodePos == start + StreamStartSize
      t == offsets[k]
  IN IF start # RecordDataOffset(k)
     THEN [ti |-> {}, subs |-> 0, pos |-> start, templates |-> tpls]
     ELSE IF isResidentTemplate(t, nodePos)
               /\ (t \in tpls \/ AddTemplateResult(pos, t, img).ok)
     THEN [ti |-> {t}, subs |-> k,
           pos |-> nodePos + TemplateInstanceSize + TemplateHeaderSize + img.tpl.dataLength,
           templates |-> tpls \cup {t}]
     ELSE [ti |-> {t}, subs |-> k, pos |-> nodePos + TemplateInstanceSize,
           templates |-> tpls]

\* Record.renderXml of record k: root(), then the template instance rendered with
\* the template getActualTemplate returns, from the cache or parsed on the
\* shared reader.
RenderRecordXml(k, pos, tpls, actuals, img, offsets) ==
  LET root == RootNode(k, pos, tpls, img, offsets) IN
  IF root.ti = {}
  THEN [xml |-> EmptyEvent, pos |-> root.pos, templates |-> root.templates,
        actualTemplates |-> actuals]
  ELSE LET t == CHOOSE o \in root.ti : TRUE
           got == IF t \in actuals \/ t \in root.templates
                  THEN [ok |-> TRUE, pos |-> root.pos]
                  ELSE GetTemplateResult(root.pos, t, img)
       IN [xml |-> IF got.ok
                   THEN [done |-> TRUE, event |-> TRUE, template |-> t, subs |-> root.subs]
                   ELSE EmptyEvent,
           pos |-> got.pos,
           templates |-> IF got.ok THEN root.templates \cup {t} ELSE root.templates,
           actualTemplates |-> IF got.ok THEN actuals \cup {t} ELSE actuals]

Idle_Render ==
  /\ roots = [k \in 1..MaxRenderRecords |-> 0]
  /\ rendered = [k \in 1..MaxRenderRecords |-> NotRendered]

\* The first record of the chunk carries the template of the chunk.
Start_Render ==
  /\ roots \in { o \in [1..MaxRenderRecords -> TemplateOffsets] : o[1] = 550 }
  /\ rendered = [k \in 1..MaxRenderRecords |-> NotRendered]

\* record.renderXml() for one of the records.
RenderRecord ==
  \E k \in 1..MaxRenderRecords :
    LET res == RenderRecordXml(k, position, templates, actualTemplates, chunkImg, roots) IN
      /\ rendered' = [rendered EXCEPT ![k] = res.xml]
      /\ position' = res.pos
      /\ templates' = res.templates
      /\ actualTemplates' = res.actualTemplates
      /\ lastLookup' = [op |-> "seek", before |-> position]
      /\ UNCHANGED <<strings, chunkImg, roots>>
      /\ UNCHANGED notRender

\* Records are rendered between any lookups on the chunk.
NextOf_Render ==
  \/ NextOf_Chunk
  \/ RenderRecord

(***************************************************************************)
(* Part 7: timestamps (Record.timestampAsDate, filetimeToDate).             *)
(*                                                                         *)
(* A FILETIME is a u64; it is held as [days, ms, ticks], the value being    *)
(* (days * MsPerDay + ms) * TicksPerMs + ticks, and a Date as [days, ms],   *)
(* the value being days * MsPerDay + ms milliseconds since 1970-01-01 with  *)
(* 0 <= ms < MsPerDay. The BigInt arithmetic of the code is exact.          *)
(***************************************************************************)
MaxDayOffset == 1

\* 10000n: the 100 ns ticks of a millisecond.
TicksPerMs == 10000
MsPerDay == 86400000
\* FILETIME_EPOCH_DIFF = 11644473600000 ms = 134774 days.
EpochDiffDays == 134774

Filetimes ==
  [days : (0..MaxDayOffset)
            \cup ((EpochDiffDays - MaxDayOffset)..(EpochDiffDays + MaxDayOffset)),
   ms : {0, 1, MsPerDay - 1},
   ticks : {0, 1, TicksPerMs - 1}]

ZeroFiletime == [days |-> 0, ms |-> 0, ticks |-> 0]
UnixEpoch == [days |-> 0, ms |-> 0]
NoDate == [days |-> 0, ms |-> 0]

\* Record.timestampAsDate: Number(filetime / 10000n - FILETIME_EPOCH_DIFF).
timestampAsDate(filetime) ==
  [days |-> filetime.days - EpochDiffDays, ms |-> filetime.ms]

\* (qword - 116444736000000000n) / 10000n, the division rounding towards zero.
UnixTimeMs(qword) ==
  IF qword.days >= EpochDiffDays \/ qword.ticks = 0
  THEN [days |-> qword.days - EpochDiffDays, ms |-> qword.ms]
  ELSE IF qword.ms + 1 = MsPerDay
       THEN [days |-> qword.days - EpochDiffDays + 1, ms |-> 0]
       ELSE [days |-> qword.days - EpochDiffDays, ms |-> qword.ms + 1]

\* filetimeToDate of BinaryReader.ts.
filetimeToDate(qword) ==
  IF qword = ZeroFiletime THEN UnixEpoch ELSE UnixTimeMs(qword)

Idle_Time ==
  /\ tfiletime = ZeroFiletime
  /\ tdate = NoDate
  /\ tcall = "done"

Start_Time ==
  /\ tfiletime \in Filetimes
  /\ tdate = NoDate
  /\ tcall = "none"

\* record.timestampAsDate() of a record whose FILETIME field is tfiletime.
TimestampAsDate ==
  /\ tcall = "none"
  /\ tdate' = timestampAsDate(tfiletime)
  /\ tcall' = "timestampAsDate"
  /\ UNCHANGED tfiletime
  /\ UNCHANGED notTime

\* filetimeToDate(tfiletime).
FiletimeToDate ==
  /\ tcall = "none"
  /\ tdate' = filetimeToDate(tfiletime)
  /\ tcall' = "filetimeToDate"
  /\ UNCHANGED tfiletime
  /\ UNCHANGED notTime

NextOf_Time == TimestampAsDate \/ FiletimeToDate

(***************************************************************************)
(* PART 8.  Binary XML token streams: NodeFactory.fromStream and the node   *)
(* constructors, the token loop and the substitution header position of a  *)
(* top-level RootNode and of BXmlParser.parseEmbeddedRootNodeAtOffset.      *)
(*                                                                         *)
(* The stream is a sequence of bytes that lies at the data of the first    *)
(* record of the chunk of part 1; every other byte of the buffer is 0.     *)
(* The same bytes are parsed as the BXML of the record (top level) or as   *)
(* an embedded fragment whose base offset is the start of the stream.      *)
(* The streams are far from the end of the buffer, so that a read at the   *)
(* cursor succeeds; seeks to offsets taken from the bytes may fail.         *)
(***************************************************************************)
BXmlToken_EndOfStream == 0
BXmlToken_OpenStartElement == 1
BXmlToken_CloseStartElement == 2
BXmlToken_CloseEmptyElement == 3
BXmlToken_CloseElement == 4
BXmlToken_Value == 5
BXmlToken_Attribute == 6
BXmlToken_CDataSection == 7
BXmlToken_TemplateInstance == 12
BXmlToken_NormalSubstitution == 13
BXmlToken_StartOfStream == 15

VariantType_Null == 0
VariantType_WString == 1
VariantType_UnsignedByte == 4

\* The offset of the stream: the data of the first record of the chunk.
StreamBase == RecordDataOffset(1)

le16(n) == <<n % 256, n \div 256>>
le32(n) == <<n % 256, (n \div 256) % 256, (n \div 65536) % 256, n \div 16777216>>

\* BinaryReader.u8At, u16leAt, u32leAt on the buffer that holds the stream img.
u8At(img, p) ==
  IF p >= StreamBase /\ p < StreamBase + Len(img) THEN img[p - StreamBase + 1] ELSE 0
u16leAt(img, p) == u8At(img, p) + 256 * u8At(img, p + 1)
u32leAt(img, p) == u16leAt(img, p) + 65536 * u16leAt(img, p + 2)

\* The state a constructor works on: the cursor of the reader, the offsets in
\* the template cache of the chunk, and the nodes constructed so far.  A node is
\* logged when its construction starts; `after` is the cursor when it ends,
\* depth 0 is a child of the root, regionEnd is node_start + tag_length + size of
\* an OpenStartElement (0 for another node).
LogEntry(kind, token, start, length, after, depth, regionEnd) ==
  [kind |-> kind, token |-> token, start |-> start, length |-> length,
   after |-> after, depth |-> depth, regionEnd |-> regionEnd]

\* What fromStream gives: ok = FALSE when the constructor throws.
Built(kind, token, length, st) ==
  [ok |-> TRUE, kind |-> kind, token |-> token, length |-> length, st |-> st]
Thrown(st) == [ok |-> FALSE, kind |-> "none", token |-> 0, length |-> 0, st |-> st]

\* A node without children of `length` declared bytes whose constructor leaves
\* the cursor at `after`.
LeafNode(st, kind, token, length, after, depth) ==
  Built(kind, token, length,
        [cur |-> after, cache |-> st.cache,
         log |-> Append(st.log, LogEntry(kind, token, st.cur, length, after, depth, 0))])

\* A node with children: the state when its construction ends.
Closed(st, idx) ==
  [cur |-> st.cur, cache |-> st.cache, log |-> [st.log EXCEPT ![idx].after = st.cur]]

\* VariantValueParser.parse(type) without a declared length: consumedBytes for
\* a value that starts at p.  The streams hold values of these types only.
ValueConsumed(img, type, p) ==
  CASE type = VariantType_WString -> 2 + 2 * u16leAt(img, p)
    [] type = VariantType_UnsignedByte -> 1
    [] OTHER -> 0

\* ChunkHeader.addString(offset).length = NameStringNode.length of the name
\* string at the chunk-relative offset: 8 + 2 * length + 2.
NameStringLength(img, offset) == 8 + 2 * u16leAt(img, chunkOffset + offset + 6) + 2

\* The header of the template definition at a chunk-relative offset can be read.
TemplateHeaderOk(offset) ==
  SeekOk(chunkOffset + offset) /\ ReadOk(chunkOffset + offset, TemplateHeaderSize)

\* TemplateNode.dataLength: the u32 at 0x14 of the definition.
TemplateDataLength(img, offset) == u32leAt(img, chunkOffset + offset + 20)

\* A TemplateInstanceNode that moves the cursor past the resident bytes in an
\* embedded fragment too.
TemplateInstanceEndAdvancing(p, length, embedded) == p + length

\* Where the constructor of TemplateInstanceNode leaves the cursor: at
\* startPos + length, but in an embedded fragment after the 10 bytes it read.
TemplateInstanceEnd(p, length, embedded) ==
  IF embedded THEN p + TemplateInstanceSize ELSE p + length

\* An embedded token loop that goes on after a TemplateInstance.
StopsAtEndOfStream(kind) == kind = "EndOfStream"

\* parseEmbeddedRootNodeAtOffset: the nodes after which the token loop breaks.
StopsTokenParsing(kind) == kind \in {"TemplateInstance", "EndOfStream"}

RECURSIVE fromStream(_, _, _, _)
RECURSIVE Attributes(_, _, _, _)
RECURSIVE Children(_, _, _, _)

\* The attribute loop of OpenStartElementNode.read_internal_structure.
Attributes(st, img, regionEnd, depth) ==
  IF st.cur < regionEnd /\ st.cur < readerSize
       /\ u8At(img, st.cur) % 16 = BXmlToken_Attribute
  THEN LET node == fromStream(st, img, FALSE, depth)
       IN IF node.ok THEN Attributes(node.st, img, regionEnd, depth) ELSE node.st
  ELSE st

\* The child loop of read_internal_structure: until the region ends, a
\* CloseElement is next, a child throws, or an EndOfStream was read.
Children(st, img, regionEnd, depth) ==
  IF st.cur < regionEnd /\ st.cur < readerSize
       /\ u8At(img, st.cur) # BXmlToken_CloseElement
  THEN LET node == fromStream(st, img, FALSE, depth)
       IN IF node.ok /\ node.token # BXmlToken_EndOfStream
          THEN Children(node.st, img, regionEnd, depth)
          ELSE node.st
  ELSE st

\* What follows the attributes: CloseStartElement, the children and CloseElement,
\* or CloseEmptyElement, each only when the cursor is before the end of the region.
ElementContent(st, img, regionEnd, depth) ==
  IF ~(st.cur < regionEnd) \/ ~ReadOk(st.cur, 1) THEN st
  ELSE IF u8At(img, st.cur) = BXmlToken_CloseStartElement
  THEN LET opened == fromStream(st, img, FALSE, depth).st
           inner == Children(opened, img, regionEnd, depth)
       IN IF inner.cur < regionEnd /\ inner.cur < readerSize
               /\ u8At(img, inner.cur) = BXmlToken_CloseElement
          THEN fromStream(inner, img, FALSE, depth).st
          ELSE inner
  ELSE IF u8At(img, st.cur) = BXmlToken_CloseEmptyElement
  THEN fromStream(st, img, FALSE, depth).st
  ELSE st

\* new OpenStartElementNode: the header, the inline name, then
\* read_internal_structure from node_start + tag_length.
OpenStartElementNode(st, img, token, depth) ==
  LET p == st.cur
      size == u32leAt(img, p + 3)
      string_offset == u32leAt(img, p + 7)
      inline == string_offset > p - chunkOffset
      tagLength == 11 + (IF ((token \div 16) \div 4) % 2 = 1 THEN 4 ELSE 0)
                      + (IF inline THEN NameStringLength(img, string_offset) ELSE 0)
      regionEnd == p + tagLength + size
      idx == Len(st.log) + 1
      entered == [cur |-> p + tagLength, cache |-> st.cache,
                  log |-> Append(st.log,
                                 LogEntry("OpenStartElement", token, p, tagLength, p,
                                          depth, regionEnd))]
  IN IF inline /\ ~NameStringOk(string_offset)
     THEN Thrown([cur |-> p + 11, cache |-> st.cache, log |-> st.log])
     ELSE IF ~SeekOk(p + tagLength)
     THEN Thrown([cur |-> p + 11, cache |-> st.cache, log |-> st.log])
     ELSE Built("OpenStartElement", token, tagLength,
                Closed(ElementContent(Attributes(entered, img, regionEnd, depth + 1),
                                      img, regionEnd, depth + 1), idx))

\* new AttributeNode: string_offset, the inline name, then one child at
\* startOffset + 5 + the length of the inline name.
AttributeNode(st, img, token, depth) ==
  LET p == st.cur
      string_offset == u32leAt(img, p + 1)
      inline == string_offset > p - chunkOffset
      nameLength == IF inline THEN 10 + 2 * u16leAt(img, p + 11) ELSE 0
      idx == Len(st.log) + 1
      entered == [cur |-> p + 5 + nameLength, cache |-> st.cache,
                  log |-> Append(st.log,
                                 LogEntry("Attribute", token, p, 5 + nameLength, p,
                                          depth, 0))]
      child == fromStream(entered, img, FALSE, depth + 1)
  IN IF ~SeekOk(p + 5 + nameLength)
     THEN Thrown([cur |-> p + 5, cache |-> st.cache, log |-> st.log])
     ELSE IF child.ok
     THEN Built("Attribute", token, 5 + nameLength + child.length,
                [cur |-> child.st.cur, cache |-> child.st.cache,
                 log |-> [child.st.log EXCEPT ![idx].after = child.st.cur,
                                               ![idx].length = 5 + nameLength + child.length]])
     ELSE Built("Attribute", token, 5 + nameLength, Closed(child.st, idx))

\* new ValueTextNode: the type, then the value; length = 2 + consumedBytes.
ValueTextNode(st, img, token, depth) ==
  LET consumed == ValueConsumed(img, u8At(img, st.cur + 1), st.cur + 2)
  IN LeafNode(st, "Value", token, 2 + consumed, st.cur + 2 + consumed, depth)

\* new CDataSectionNode: it reads string_length and leaves the text unread;
\* length = 3 + string_length.
CDataSectionNode(st, img, token, depth) ==
  LeafNode(st, "CDataSection", token, 3 + u16leAt(img, st.cur + 1), st.cur + 3, depth)

\* new TemplateInstanceNode: a resident template is added to the cache of the
\* chunk from a cloned reader (an error of addTemplate is caught), its 24 + data
\* bytes are counted in length, and the cursor is moved to TemplateInstanceEnd.
TemplateInstanceNode(st, img, token, embedded, depth) ==
  LET p == st.cur
      template_offset == u32leAt(img, p + 6)
      added == /\ isResidentTemplate(template_offset, p)
               /\ (template_offset \in st.cache \/ TemplateHeaderOk(template_offset))
      cache == IF added THEN st.cache \cup {template_offset} ELSE st.cache
      length == TemplateInstanceSize
                  + (IF added
                     THEN TemplateHeaderSize + TemplateDataLength(img, template_offset)
                     ELSE 0)
      after == TemplateInstanceEnd(p, length, embedded)
  IN IF ~SeekOk(after)
     THEN Thrown([cur |-> p + TemplateInstanceSize, cache |-> cache, log |-> st.log])
     ELSE LeafNode([cur |-> p, cache |-> cache, log |-> st.log],
                   "TemplateInstance", token, length, after, depth)

\* NodeFactory.fromStream: the token byte, masked to its low four bits, selects
\* the node; every masked value has a node class.
fromStream(st, img, embedded, depth) ==
  LET p == st.cur
      token == u8At(img, p)
      masked == token % 16
  IN CASE masked = BXmlToken_StartOfStream ->
            LeafNode(st, "StartOfStream", token, StreamStartSize, p + StreamStartSize, depth)
       [] masked = BXmlToken_EndOfStream ->
            LeafNode(st, "EndOfStream", token, 1, p + 1, depth)
       [] masked = BXmlToken_OpenStartElement -> OpenStartElementNode(st, img, token, depth)
       [] masked = BXmlToken_CloseStartElement ->
            LeafNode(st, "CloseStartElement", token, 1, p + 1, depth)
       [] masked = BXmlToken_CloseEmptyElement ->
            LeafNode(st, "CloseEmptyElement", token, 1, p + 1, depth)
       [] masked = BXmlToken_CloseElement ->
            LeafNode(st, "CloseElement", token, 1, p + 1, depth)
       [] masked = BXmlToken_Value -> ValueTextNode(st, img, token, depth)
       [] masked = BXmlToken_Attribute -> AttributeNode(st, img, token, depth)
       [] masked = BXmlToken_CDataSection -> CDataSectionNode(st, img, token, depth)
       [] masked = 8 -> LeafNode(st, "CharacterReference", token, 3, p + 3, depth)
       [] masked = 9 -> LeafNode(st, "EntityReference", token, 5, p + 5, depth)
       [] masked \in {10, 11} ->
            LeafNode(st, "ProcessingInstruction", token, 3 + 2 * u16leAt(img, p + 1),
                     p + 3 + 2 * u16leAt(img, p + 1), depth)
       [] masked = BXmlToken_TemplateInstance ->
            TemplateInstanceNode(st, img, token, embedded, depth)
       [] OTHER -> LeafNode(st, "Substitution", token, 4, p + 4, depth)

\* RootNode, phase 2: r.seek(rootNodeStartOffset + _parsedBxmlChildrenLength - 1).
SubstitutionDataOffset(recordDataOffset, declared) == recordDataOffset + declared - 1

\* parseEmbeddedRootNodeAtOffset: reader.seek(baseOffset + declared).
EmbeddedCountOffset(baseOffset, declared) == baseOffset + declared

NoCount == 0 - 1

\* --- the streams ---------------------------------------------------------
StartOfStreamBytes == <<BXmlToken_StartOfStream, 1, 1, 0>>

\* A TemplateInstance token for template 7 at a chunk-relative offset.
TemplateInstanceBytes(offset) ==
  <<BXmlToken_TemplateInstance, 1>> \o le32(7) \o le32(offset)

\* A template definition: next_offset, the guid (the id in its first four
\* bytes), data_length, and the data.
TemplateBytes(data) ==
  le32(0) \o le32(7) \o <<0, 0, 0, 0, 0, 0, 0, 0, 0, 0, 0, 0>> \o le32(Len(data)) \o data

\* An OpenStartElement with an interned name (string offset 100), a size and content.
ElementBytes(flags, size, content) ==
  <<16 * flags + BXmlToken_OpenStartElement, 0, 0>> \o le32(size)
    \o le32(100) \o (IF (flags \div 4) % 2 = 1 THEN <<0, 0, 0, 0>> ELSE <<>>) \o content

\* A Value token holding the WString "x".
ValueBytes == <<BXmlToken_Value, VariantType_WString, 1, 0, 120, 0>>

\* An Attribute token with an interned name (string offset 100) and a value.
AttributeBytes == <<BXmlToken_Attribute>> \o le32(100) \o ValueBytes

\* A CDataSection whose length field is 2 and whose two characters are U+0004.
CDataBytes == <<BXmlToken_CDataSection, 2, 0, 4, 0, 4, 0>>

ClosedContent(content) ==
  <<BXmlToken_CloseStartElement>> \o content \o <<BXmlToken_CloseElement>>

\* The bodies of the streams, for a body that starts `before` bytes into the
\* stream: template instances (not resident, resident with the definition
\* behind the token, resident by its offset but beyond the buffer), elements
\* whose size is that of their content, elements whose size is less, a nested
\* element larger than what is left of its parent, a template instance inside
\* an element, a CDataSection, and a token byte with flag bits whose low four
\* bits are 0.
Bodies(before) ==
  LET nodeOffset == (StreamBase - chunkOffset) + before
      inner == ElementBytes(0, 8, ClosedContent(ValueBytes))
  IN { TemplateInstanceBytes(50),
       TemplateInstanceBytes(nodeOffset + TemplateInstanceSize) \o TemplateBytes(<<>>),
       TemplateInstanceBytes(nodeOffset + TemplateInstanceSize)
         \o TemplateBytes(<<BXmlToken_OpenStartElement, 0, 0>>),
       TemplateInstanceBytes(70000),
       ElementBytes(0, 8, ClosedContent(ValueBytes)),
       ElementBytes(4, 12, AttributeBytes \o <<BXmlToken_CloseEmptyElement>>),
       ElementBytes(0, 2, ClosedContent(ValueBytes)),
       ElementBytes(0, Len(inner) + 2, ClosedContent(inner)),
       ElementBytes(0, 9, ClosedContent(CDataBytes)),
       ElementBytes(0, 3, ClosedContent(inner)),
       ElementBytes(0, 12, ClosedContent(TemplateInstanceBytes(50))),
       CDataBytes \o ValueBytes,
       <<16 + BXmlToken_EndOfStream>> \o ValueBytes }

\* What follows the body: nothing, the bytes of a substitution count, an
\* EndOfStream, or both.
Tails == { <<>>, le32(2), <<BXmlToken_EndOfStream>>, <<BXmlToken_EndOfStream>> \o le32(2) }

Streams ==
  { pre \o body \o tail :
      pre \in {<<>>}, body \in Bodies(0), tail \in Tails }
  \cup
  { StartOfStreamBytes \o body \o tail :
      body \in Bodies(StreamStartSize), tail \in Tails }

\* record.size() of the record that holds the stream: the header and the whole
\* stream, or the header and the first four bytes of it.
StreamRecordSizes(img) == { RecordHeaderSize + Len(img), RecordHeaderSize + StreamStartSize }

NoStream == <<>>

Idle_Bxml ==
  /\ bimg = NoStream
  /\ bsize = 0
  /\ bmode = "done"
  /\ bloop = FALSE
  /\ bcur = 0
  /\ bcache = {}
  /\ blog = <<>>
  /\ bdeclared = 0
  /\ bcount = NoCount

Start_Bxml ==
  /\ bimg \in Streams
  /\ bsize \in StreamRecordSizes(bimg)
  /\ bmode = "none"
  /\ bloop = FALSE
  /\ bcur = 0
  /\ bcache \in {{}, {550}}
  /\ blog = <<>>
  /\ bdeclared = 0
  /\ bcount = NoCount

\* new RootNode(r, chunk, record, recordDataOffset): r.seek(recordDataOffset).
RootNodeStart ==
  /\ bmode = "none"
  /\ bmode' = "top"
  /\ bloop' = TRUE
  /\ bcur' = StreamBase
  /\ UNCHANGED <<bimg, bsize, bcache, blog, bdeclared, bcount>>
  /\ UNCHANGED notBxml

\* One turn of the token loop of RootNode that constructs a child, or ends the
\* loop when the constructor throws.
RootNodeChild ==
  /\ bmode = "top" /\ bloop
  /\ bcur < StreamBase + bsize - RecordHeaderSize
  /\ bcur < readerSize
  /\ u8At(bimg, bcur) # BXmlToken_EndOfStream
  /\ LET node == fromStream([cur |-> bcur, cache |-> bcache, log |-> blog], bimg, FALSE, 0)
     IN /\ bcur' = node.st.cur
        /\ bcache' = node.st.cache
        /\ blog' = node.st.log
        /\ bdeclared' = bdeclared + node.length
        /\ bloop' = node.ok
  /\ UNCHANGED <<bimg, bsize, bmode, bcount>>
  /\ UNCHANGED notBxml

\* The end of the token loop of RootNode and phase 2 up to the read of the
\* substitution count.
RootNodeSubstitutions ==
  /\ bmode = "top"
  /\ \/ ~bloop
     \/ ~(bcur < StreamBase + bsize - RecordHeaderSize)
     \/ ~(bcur < readerSize)
     \/ u8At(bimg, bcur) = BXmlToken_EndOfStream
  /\ LET at == SubstitutionDataOffset(StreamBase, bdeclared)
     IN /\ bcur' = IF SeekOk(at) /\ at + 4 <= readerSize THEN at + 4 ELSE bcur
        /\ bcount' = IF SeekOk(at) /\ at + 4 <= readerSize THEN at ELSE NoCount
  /\ bmode' = "topDone"
  /\ bloop' = FALSE
  /\ UNCHANGED <<bimg, bsize, bcache, blog, bdeclared>>
  /\ UNCHANGED notBxml

\* parseEmbeddedRootNodeAtOffset(reader, chunk, baseOffset, length):
\* reader.seek(baseOffset).
EmbeddedStart ==
  /\ bmode = "none"
  /\ bmode' = "embedded"
  /\ bloop' = TRUE
  /\ bcur' = StreamBase
  /\ UNCHANGED <<bimg, bsize, bcache, blog, bdeclared, bcount>>
  /\ UNCHANGED notBxml

\* One turn of the token loop of the embedded parse.
EmbeddedChild ==
  /\ bmode = "embedded" /\ bloop
  /\ bcur < StreamBase + (bsize - RecordHeaderSize) + 64
  /\ LET node == fromStream([cur |-> bcur, cache |-> bcache, log |-> blog], bimg, TRUE, 0)
     IN /\ bcur' = node.st.cur
        /\ bcache' = node.st.cache
        /\ blog' = node.st.log
        /\ bdeclared' = IF node.ok /\ node.kind # "EndOfStream"
                        THEN bdeclared + node.length ELSE bdeclared
        /\ bloop' = (node.ok /\ ~StopsTokenParsing(node.kind))
  /\ UNCHANGED <<bimg, bsize, bmode, bcount>>
  /\ UNCHANGED notBxml

\* The end of the token loop of the embedded parse and the read of the count.
EmbeddedSubstitutions ==
  /\ bmode = "embedded"
  /\ ~bloop \/ ~(bcur < StreamBase + (bsize - RecordHeaderSize) + 64)
  /\ LET at == EmbeddedCountOffset(StreamBase, bdeclared)
     IN /\ bcur' = IF SeekOk(at) /\ ReadOk(at, 4) THEN at + 4 ELSE bcur
        /\ bcount' = IF SeekOk(at) /\ ReadOk(at, 4) THEN at ELSE NoCount
  /\ bmode' = "embeddedDone"
  /\ bloop' = FALSE
  /\ UNCHANGED <<bimg, bsize, bcache, blog, bdeclared>>
  /\ UNCHANGED notBxml

NextOf_Bxml ==
  \/ RootNodeStart
  \/ RootNodeChild
  \/ RootNodeSubstitutions
  \/ EmbeddedStart
  \/ EmbeddedChild
  \/ EmbeddedSubstitutions

(***************************************************************************)
(* PART 9.  ChunkHeader._loadStrings, one step of its loops at a time.      *)
(***************************************************************************)
\* The buckets of the string table the walk visits (64 in the code) and the
\* value at which the count of the parses of one offset stops growing.
NumBuckets == 2
MaxParses == 2

\* The chunk-relative offsets of name strings: two inside the chunk and one
\* whose 8-byte header runs over the end of the file.
ChainOffsets == {600, 700, 65530}

\* What the bytes of the chunk hold: the head of each bucket, the next_offset of
\* each name string and next_record_offset.
StringTableImages ==
  { [heads |-> h, next |-> (600 :> n6 @@ 700 :> n7), nextRecordOffset |-> nro] :
      h \in [1..NumBuckets -> {0} \cup ChainOffsets],
      n6 \in {0} \cup ChainOffsets, n7 \in {0} \cup ChainOffsets,
      nro \in {650, 65536} }

NoParses == [o \in {0} \cup ChainOffsets |-> 0]

\* A walk without the guard on offsets already loaded.
NeverPresent(ofs, map) == FALSE

\* this._strings.has(ofs)
Present(ofs, map) == ofs \in map

\* addString(ofs): the name string is parsed and set in the map.
Parsed(parses, ofs) == [parses EXCEPT ![ofs] = Min(@ + 1, MaxParses)]

Idle_Strings ==
  /\ simg = NoValue
  /\ sphase = "idle"
  /\ sbucket = 0
  /\ sofs = 0
  /\ smap = {}
  /\ sparses = NoParses

Start_Strings ==
  /\ simg \in StringTableImages
  /\ sphase = "none"
  /\ sbucket = 0
  /\ sofs = 0
  /\ smap = {}
  /\ sparses = NoParses

\* _loadStrings up to its for loop: the map is created and addString(0) called.
LoadStringsStart ==
  /\ sphase = "none"
  /\ smap' = {0}
  /\ sparses' = Parsed(sparses, 0)
  /\ sbucket' = 1
  /\ sphase' = "bucket"
  /\ UNCHANGED <<simg, sofs>>
  /\ UNCHANGED notStrings

\* for (i...): ofs = this.u32(OFF_STRING_TABLE + i * 4)
BucketHead ==
  /\ sphase = "bucket"
  /\ sbucket <= NumBuckets
  /\ sofs' = simg.heads[sbucket]
  /\ sphase' = "chain"
  /\ UNCHANGED <<simg, sbucket, smap, sparses>>
  /\ UNCHANGED notStrings

\* One turn of the while loop that parses the string at ofs: addString throws
\* when the string cannot be read; the walk of the bucket ends when the next
\* offset is 0 or is loaded.
ChainStep ==
  /\ sphase = "chain"
  /\ sofs > 0 /\ sofs < simg.nextRecordOffset
  /\ ~Present(sofs, smap)
  /\ IF ~NameStringOk(sofs)
     THEN /\ sphase' = "thrown"
          /\ UNCHANGED <<sbucket, sofs, smap, sparses>>
     ELSE /\ smap' = smap \cup {sofs}
          /\ sparses' = Parsed(sparses, sofs)
          /\ sofs' = StringNext(sofs, simg)
          /\ IF sofs' = 0 \/ Present(sofs', smap')
             THEN sphase' = "bucket" /\ sbucket' = sbucket + 1
             ELSE sphase' = "chain" /\ sbucket' = sbucket
  /\ UNCHANGED simg
  /\ UNCHANGED notStrings

\* The while loop ends: ofs is 0, is not below next_record_offset, or is loaded.
ChainEnd ==
  /\ sphase = "chain"
  /\ ~(sofs > 0 /\ sofs < simg.nextRecordOffset) \/ Present(sofs, smap)
  /\ sphase' = "bucket"
  /\ sbucket' = sbucket + 1
  /\ UNCHANGED <<simg, sofs, smap, sparses>>
  /\ UNCHANGED notStrings

\* The for loop ends and _loadStrings returns.
LoadStringsEnd ==
  /\ sphase = "bucket"
  /\ sbucket > NumBuckets
  /\ sphase' = "done"
  /\ UNCHANGED <<simg, sbucket, sofs, smap, sparses>>
  /\ UNCHANGED notStrings

NextOf_Strings ==
  \/ LoadStringsStart
  \/ BucketHead
  \/ ChainStep
  \/ ChainEnd
  \/ LoadStringsEnd

(***************************************************************************)
(* PART 10.  ChunkHeader.records() on the one chunk of the file of part 1.  *)
(***************************************************************************)
\* The size of the records of this part and the number of places a record can
\* start at: FirstRecordOffset and the multiples of RecordUnit behind it.
RecordUnit == FirstRecordOffset \div 2
NumSlots == 3

RecordStarts == { FirstRecordOffset + k * RecordUnit : k \in 0..(NumSlots - 1) }

\* A record that reaches to the end of the chunk.
ToChunkEnd == ChunkSize - FirstRecordOffset

\* The bytes at a place a record can start at: no record magic, or a record
\* header with a size.
RecordHeaders ==
  {BadSlot} \cup
  { [magic |-> TRUE, size |-> sz, num |-> 0, eventId |-> 0] :
      sz \in {0, RecordUnit, 2 * RecordUnit, ToChunkEnd, OversizeRecord} }

\* What the bytes of a chunk hold: next_record_offset and the record headers.
RecordChunks ==
  { [verifyFail |-> "none", nextRecordOffset |-> nro, slot |-> sl] :
      nro \in RecordStarts \cup {ChunkSize}, sl \in [RecordStarts -> RecordHeaders] }

\* new Record(r, offset, chunk) at the chunk-relative offset rel: "overrun"
\* when reading magic or size runs over the end of the buffer, "invalid" for
\* InvalidRecordException, else "ok".  The bytes between the places of the
\* record headers hold no record magic.
NewRecord(c, rel) ==
  LET abs == chunkOffset + rel IN
  IF ~ReadOk(abs, 4) THEN "overrun"
  ELSE IF rel \notin DOMAIN c.slot THEN "invalid"
  ELSE IF ~c.slot[rel].magic THEN "invalid"
  ELSE IF ~ReadOk(abs + 4, 4) THEN "overrun"
  ELSE IF c.slot[rel].size > MaxRecordSize THEN "invalid"
  ELSE "ok"

Idle_Records ==
  /\ kchunk = NoChunk
  /\ kpc = "idle"
  /\ krec = 0
  /\ kyielded = <<>>

Start_Records ==
  /\ kchunk \in RecordChunks
  /\ kpc = "start"
  /\ krec = 0
  /\ kyielded = <<>>

\* records(): record = new Record(this.r, this.offset + 0x200, this).
FirstRecord ==
  /\ kpc = "start"
  /\ krec' = FirstRecordOffset
  /\ kpc' = RecordsCatch(NewRecord(kchunk, FirstRecordOffset))
  /\ UNCHANGED <<kchunk, kyielded>>
  /\ UNCHANGED notRecords

\* The loop test holds: yield record.
YieldNext ==
  /\ kpc = "loop"
  /\ RecordsLoopTest(kchunk, krec)
  /\ kyielded' = Append(kyielded, krec)
  /\ kpc' = "advance"
  /\ UNCHANGED <<kchunk, krec>>
  /\ UNCHANGED notRecords

\* record = new Record(this.r, record.offset + record.length(), this).
NextRecord ==
  /\ kpc = "advance"
  /\ krec' = krec + kchunk.slot[krec].size
  /\ kpc' = RecordsCatch(NewRecord(kchunk, krec'))
  /\ UNCHANGED <<kchunk, kyielded>>
  /\ UNCHANGED notRecords

\* The loop test fails: the generator returns.
RecordsReturn ==
  /\ kpc = "loop"
  /\ ~RecordsLoopTest(kchunk, krec)
  /\ kpc' = "chunkDone"
  /\ UNCHANGED <<kchunk, krec, kyielded>>
  /\ UNCHANGED notRecords

NextOf_Records ==
  \/ FirstRecord
  \/ YieldNext
  \/ NextRecord
  \/ RecordsReturn

(***************************************************************************)
(* PART 11.  The query builder: EvtxQueryImpl.toArray and forEach.          *)
(***************************************************************************)
MaxInputs == 2
MaxFileEvents == 2
MaxTake == 2

\* The events of a file, as far as the query reads them: the event id and the
\* day of the timestamp.
QueryEvents == [eventId : EventIds, day : 1..2]

\* The files: the events of their records in the order of the file, the records
\* numbered from 1, so that the header's next record number is one above.
QueryFiles ==
  { [events |-> ev, nextRecordNumber |-> Len(ev) + 1] :
      ev \in UNION { [1..n -> QueryEvents] : n \in 0..MaxFileEvents } }

\* The settings: last(n), 0 when not set; where({eventId: 1}) or none;
\* between(day 2), or none.
QuerySettings == [last : 0..MaxTake, where : {"none", "eventId"}, between : BOOLEAN]

\* this.predicate of where({eventId: 1}).
Matches(q, e) == q.where = "none" \/ e.eventId = 1

\* The events readResolvedEvents yields of a file with the options last and
\* since: those from startAt on that are not before since.
ResolvedEvents(file, last, q) ==
  LET startAt == StartAt([last |-> last, start |-> 1], file)
      from == SubSeq(file.events, startAt, Len(file.events))
      InRange(e) == ~q.between \/ e.day >= 2
  IN SelectSeq(from, InRange)

\* applyFilters(events): the predicate, then slice(-takeLast).
applyFilters(q, events) ==
  LET Keep(e) == Matches(q, e)
      out == SelectSeq(events, Keep)
  IN IF q.last > 0 THEN SubSeq(out, Max(1, Len(out) - q.last + 1), Len(out)) ELSE out

\* toArray(): the events of every input, read with last: this.takeLast, pushed
\* to one array, then applyFilters.
RECURSIVE Collected(_, _, _)
Collected(inputs, i, q) ==
  IF i = 0 THEN <<>>
  ELSE Collected(inputs, i - 1, q) \o ResolvedEvents(inputs[i], q.last, q)

toArray(inputs, q) == applyFilters(q, Collected(inputs, Len(inputs), q))

\* forEach(fn): the events of every input, read without last, that pass the
\* predicate, each passed to fn.
RECURSIVE forEach(_, _, _)
forEach(inputs, i, q) ==
  LET Keep(e) == Matches(q, e)
  IN IF i = 0 THEN <<>>
     ELSE forEach(inputs, i - 1, q) \o SelectSeq(ResolvedEvents(inputs[i], 0, q), Keep)

NoQuerySettings == [last |-> 0, where |-> "none", between |-> FALSE]

Idle_Query ==
  /\ qinputs = <<>>
  /\ qsettings = NoQuerySettings
  /\ qarray = <<>>
  /\ qpassed = <<>>
  /\ qdone = {"toArray", "forEach"}

Start_Query ==
  /\ qinputs \in UNION { [1..n -> QueryFiles] : n \in 1..MaxInputs }
  /\ qsettings \in QuerySettings
  /\ qarray = <<>>
  /\ qpassed = <<>>
  /\ qdone = {}

\* await query.toArray()
ToArray ==
  /\ "toArray" \notin qdone
  /\ qarray' = toArray(qinputs, qsettings)
  /\ qdone' = qdone \cup {"toArray"}
  /\ UNCHANGED <<qinputs, qsettings, qpassed>>
  /\ UNCHANGED notQuery

\* await query.forEach(fn), fn recording the events it is passed.
ForEach ==
  /\ "forEach" \notin qdone
  /\ qpassed' = forEach(qinputs, Len(qinputs), qsettings)
  /\ qdone' = qdone \cup {"forEach"}
  /\ UNCHANGED <<qinputs, qsettings, qarray>>
  /\ UNCHANGED notQuery

NextOf_Query == ToArray \/ ForEach

(***************************************************************************)
(* Specifications.                                                         *)
(***************************************************************************)
Idle_Base ==
  Idle_Chunk /\ Idle_File /\ Idle_Variant /\ Idle_Apply /\ Idle_Resolve /\ Idle_Render

Idle_More == Idle_Time /\ Idle_Bxml /\ Idle_Strings /\ Idle_Records /\ Idle_Query

Init_Chunk ==
  Start_Chunk /\ Idle_File /\ Idle_Variant /\ Idle_Apply /\ Idle_Resolve /\ Idle_Render /\ Idle_More
SpecChunk == Init_Chunk /\ [][NextOf_Chunk]_vars

Init_File ==
  Start_File /\ Idle_Chunk /\ Idle_Variant /\ Idle_Apply /\ Idle_Resolve /\ Idle_Render /\ Idle_More
SpecFile == Init_File /\ [][NextOf_File]_vars

Init_Variant ==
  Start_Variant /\ Idle_Chunk /\ Idle_File /\ Idle_Apply /\ Idle_Resolve /\ Idle_Render /\ Idle_More
SpecVariant == Init_Variant /\ [][NextOf_Variant]_vars

Init_Apply ==
  Start_Apply /\ Idle_Chunk /\ Idle_File /\ Idle_Variant /\ Idle_Resolve /\ Idle_Render /\ Idle_More
SpecApply == Init_Apply /\ [][NextOf_Apply]_vars

Init_Resolve ==
  Start_Resolve /\ Idle_Chunk /\ Idle_File /\ Idle_Variant /\ Idle_Apply
  /\ Idle_Render /\ Idle_More
SpecResolve == Init_Resolve /\ [][NextOf_Resolve]_vars

Init_Resolver ==
  Start_Resolver /\ Idle_Chunk /\ Idle_File /\ Idle_Variant /\ Idle_Apply
  /\ Idle_Render /\ Idle_More
SpecResolver == Init_Resolver /\ [][NextOf_Resolve]_vars

Init_Layout ==
  Start_Layout /\ Idle_Chunk /\ Idle_File /\ Idle_Variant /\ Idle_Apply
  /\ Idle_Render /\ Idle_More
SpecLayout == Init_Layout /\ [][NextOf_Resolve]_vars

Init_Render ==
  Start_Chunk /\ Start_Render /\ Idle_File /\ Idle_Variant /\ Idle_Apply /\ Idle_Resolve /\ Idle_More
SpecRender == Init_Render /\ [][NextOf_Render]_vars

Init_Time == Start_Time /\ Idle_Base /\ Idle_Bxml /\ Idle_Strings /\ Idle_Records /\ Idle_Query
SpecTime == Init_Time /\ [][NextOf_Time]_vars

Init_Bxml == Start_Bxml /\ Idle_Base /\ Idle_Time /\ Idle_Strings /\ Idle_Records /\ Idle_Query
SpecBxml == Init_Bxml /\ [][NextOf_Bxml]_vars

\* _loadStrings runs on its own: a step that can be taken is taken.
Init_Strings == Start_Strings /\ Idle_Base /\ Idle_Time /\ Idle_Bxml /\ Idle_Records /\ Idle_Query
SpecStrings == Init_Strings /\ [][NextOf_Strings]_vars /\ WF_vars(NextOf_Strings)

\* The consumer of records() takes every record: a step that can be taken is taken.
Init_Records == Start_Records /\ Idle_Base /\ Idle_Time /\ Idle_Bxml /\ Idle_Strings /\ Idle_Query
SpecRecords == Init_Records /\ [][NextOf_Records]_vars /\ WF_vars(NextOf_Records)

Init_Query ==
  Start_Query /\ Idle_Base /\ Idle_Time /\ Idle_Bxml /\ Idle_Strings /\ Idle_Records
SpecQuery == Init_Query /\ [][NextOf_Query]_vars

Init == Init_File
Next == NextOf_File
Spec == SpecFile

(***************************************************************************)
(* Properties.                                                             *)
(***************************************************************************)

\* C1: every string or template lookup on a chunk (addString, getString/strings,
\* addTemplate, getTemplate, getActualTemplate) leaves the cursor of the active BXML
\* parse exactly where it was before the lookup, cached or not.
C1_LookupKeepsCursor ==
  lastLookup.op # "seek" => position = lastLookup.before

\* C2: for every chunk located inside the file, whatever bytes it holds, iterating
\* its records never propagates an error to the enclosing iteration: a position
\* that holds no valid record just ends the iteration of the chunk.
C2_RecordsNeverPropagate ==
  pc # "error"

\* C3: a chunk that fails verification yields no record to the file-level
\* iteration and a warning is recorded for it; the chunks after it are iterated.
C3_FailedChunkSkipped ==
  \A k \in 1..Len(visited) :
    ~visited[k] =>
      /\ \A i \in 1..Len(yielded) : yielded[i].chunk # k
      /\ fileWarnings > 0

\* C4: in substitution mode, for every variant type code (known or unknown) and
\* every declared size d, decoding a value that starts at cursor position p
\* leaves the cursor at exactly p + d.
C4_CursorAtDeclaredEnd ==
  vlast.type # "none" => vpos = vlast.start + vlast.declared

\* The stored record numbers of a chunk ascend with the record offsets (a valid
\* EVTX file).
AscendingNumbers ==
  \A i, j \in 1..Len(yielded) :
    (i < j /\ yielded[i].chunk = yielded[j].chunk) => yielded[i].num < yielded[j].num

\* C5: events are emitted in record order: ascending chunk offset across the file,
\* ascending record offset within a chunk and, in a file whose record numbers
\* ascend within each chunk, strictly ascending record number within each chunk;
\* start, limit, last and the pre-filter drop records and never reorder them
\* (the emitted events are a subsequence of the yielded records).
C5_EmittedInRecordOrder ==
  \A i, j \in 1..Len(emitted) :
    i < j =>
      LET a == yielded[emitted[i]]
          b == yielded[emitted[j]]
      IN /\ emitted[i] < emitted[j]
         /\ \/ ChunkOffsetOf(a.chunk) < ChunkOffsetOf(b.chunk)
            \/ a.chunk = b.chunk /\ a.offset < b.offset
         /\ (AscendingNumbers /\ a.chunk = b.chunk) => a.num < b.num

\* Two events of one chunk are emitted behind a dropped record, in a file whose
\* record numbers ascend.
C5_Witness ==
  /\ AscendingNumbers
  /\ Len(emitted) < Len(yielded)
  /\ \E i, j \in 1..Len(emitted) :
       i < j /\ yielded[emitted[i]].chunk = yielded[emitted[j]].chunk

\* The final n indexes of 1..r.
FinalOf(n, r) == [k \in 1..Min(n, r) |-> r - Min(n, r) + k]

\* C6: reading with last = N > 0, no filter and no limit emits exactly the final
\* min(N, R) of the R records that iterating the file yields, in record order.
C6_LastEmitsFinalRecords ==
  (pc = "done" /\ options.last > 0 /\ options.limit = 0 /\ options.eventId = {})
    => emitted = FinalOf(options.last, Len(yielded))

\* text holds %N, N the whole run of digits behind the %, with 1 <= N <= n.
HasPlaceholder(text, n) ==
  \E i \in 1..Len(text) :
    /\ text[i] = "%"
    /\ RunLen(text, i + 1, Digits) > 0
    /\ parseInt(SubSeq(text, i + 1, i + RunLen(text, i + 1, Digits))) \in 1..n

\* text holds a format token: letters between two exclamation marks.
HasFormatToken(text) ==
  \E i \in 1..Len(text) :
    /\ text[i] = "!"
    /\ RunLen(text, i + 1, Letters) > 0
    /\ i + 1 + RunLen(text, i + 1, Letters) <= Len(text)
    /\ text[i + 1 + RunLen(text, i + 1, Letters)] = "!"

\* C9: for every template t and argument vector a, apply(t, a) holds no residual
\* %N with 1 <= N <= len(a) and no residual !fmt! token.
C9_NoResidualPlaceholder ==
  adone =>
    /\ ~HasPlaceholder(aresult, Len(aargs))
    /\ ~HasFormatToken(aresult)

\* C7 (as first stated): every emitted event has id equal to the record number
\* stored in the header of the record it was assembled from.
C7_IdIsHeaderRecordNumber ==
  (rdone /\ ~rthrown /\ revent.status # "none") => revent.id = rrec.num

\* C7: every emitted event has id equal to the EventRecordID of the record's
\* rendered XML when that is a non-zero number, and to the record number of the
\* record's header otherwise.
C7_IdIsEventRecordId ==
  (rdone /\ ~rthrown /\ revent.status # "none") =>
    /\ (rrec.xmlRecordId \in {{}, {0}}) => revent.id = rrec.num
    /\ (rrec.xmlRecordId \notin {{}, {0}}) => revent.id \in rrec.xmlRecordId

\* An event is emitted for a record whose XML carries an EventRecordID other than
\* the record number of its header.
C7_Witness ==
  /\ rdone /\ ~rthrown /\ revent.status # "none"
  /\ rrec.xmlRecordId \notin {{}, {0}, {rrec.num}}

\* C8: whenever an emitted event has status "resolved", its selection is present
\* with fit in {exact, underflow, overflow} and its final is present with
\* from = "template", for every diagnostics level, template text and arguments.
C8_ResolvedHasSelectionAndFinal ==
  (rdone /\ ~rthrown /\ revent.status = "resolved") =>
    /\ revent.selection.present
    /\ revent.selection.fit \in {"exact", "underflow", "overflow"}
    /\ revent.final.present
    /\ revent.final.from = "template"

\* C10: with messageStrategy = required, assembling an event for which no catalog
\* template matches raises an error instead of emitting the event.
C10_RequiredRaisesWithoutTemplate ==
  (rdone /\ ropts.messageStrategy = "required"
         /\ ~IsNonEmpty(ChosenTemplate(rrec, ropts, rcatalog)))
    => rthrown

\* The providers of a sequence of attempts.
ProvidersOf(attempts) == [k \in 1..Len(attempts) |-> attempts[k].provider]

\* The attempts marked selected.
SelectedIn(attempts) == { k \in 1..Len(attempts) : attempts[k].selected }

\* C11 as stated: whenever the catalog provider fails during lookup, the failure
\* is in the event's messageResolution.errors and the event is emitted.
C11_FailureInErrorsAndEmitted ==
  (rdone /\ rtrace.failed) => (~rthrown /\ Len(revent.errors) > 0)

\* C11: whenever the catalog provider fails during lookup, the failure is
\* recorded, no template is selected, the fallback builder supplies the message,
\* the call throws only when the strategy is required and the fallback builder
\* has no message, and the emitted event carries the failure in its errors when
\* the diagnostics level is full.
C11_FailureRecordedFallbackAttempted ==
  (rdone /\ rtrace.failed) =>
    LET fb == buildFallbackMessageFromLayouts(rrec) IN
      /\ rtrace.errors = <<"provider error">>
      /\ ~rtrace.selected
      /\ rthrown <=> (ropts.messageStrategy = "required" /\ ~IsNonEmpty(fb))
      /\ ~rthrown =>
           /\ IsNonEmpty(fb) =>
                (revent.status = "fallback" /\ revent.final.present
                 /\ revent.final.message = fb /\ revent.final.from = "fallback")
           /\ ~IsNonEmpty(fb) => (revent.status = "unresolved" /\ ~revent.final.present)
           /\ ropts.includeDiagnostics = "full" => revent.errors = <<"provider error">>

\* The provider failed, and the event is emitted at the full level with a
\* fallback message.
C11_Witness ==
  /\ rdone /\ ~rthrown /\ rtrace.failed
  /\ ropts.includeDiagnostics = "full"
  /\ revent.status = "fallback"
  /\ Len(revent.errors) > 0

\* C12: the resolver asks the provider for the names in order (the canonical
\* name, then the alias when alias lookup is enabled), asks for no name after
\* one that yielded a candidate, and records exactly one attempt per name asked
\* for.
C12_OneAttemptPerNameQueried ==
  rdone =>
    LET names == ProviderNames(rrec, ropts)
        queries == rtrace.queries
    IN /\ Len(queries) <= Len(names)
       /\ queries = SubSeq(names, 1, Len(queries))
       /\ \A k \in 1..Len(queries) :
            (~rcatalog[queries[k]].fails /\ Len(rcatalog[queries[k]].candidates) > 0)
              => k = Len(queries)
       /\ ProvidersOf(rtrace.attempts) = queries

\* C13: whenever a template is selected, exactly one of the recorded attempts is
\* marked selected, it is the attempt of the name that supplied the template,
\* and its reason is "best-fit" for the canonical name and "alias-fallback" for
\* the alias; when the canonical name yielded no candidate and the alias
\* supplied the template, there are two attempts and the second is the selected
\* one.  The event carries these attempts unless the diagnostics level is none.
C13_ExactlyOneAttemptSelected ==
  (rdone /\ rtrace.selected) =>
    LET attempts == rtrace.attempts
        n == Len(attempts)
    IN /\ SelectedIn(attempts) = {n}
       /\ n > 0
       /\ attempts[n].candidateCount = Len(rcatalog[attempts[n].provider].candidates)
       /\ attempts[n].candidateCount > 0
       /\ \A k \in 1..(n - 1) : attempts[k].candidateCount = 0
       /\ attempts[n].reason =
            (IF attempts[n].provider = "canonical" THEN "best-fit" ELSE "alias-fallback")
       /\ (Len(rcatalog.canonical.candidates) = 0 /\ Len(rcatalog.alias.candidates) = 1) =>
            /\ ProvidersOf(attempts) = <<"canonical", "alias">>
            /\ attempts[2].selected /\ attempts[2].reason = "alias-fallback"
            /\ ~attempts[1].selected
       /\ (~rthrown /\ ropts.includeDiagnostics # "none") => revent.attempts = attempts

\* The canonical name yielded no candidate and the alias supplied the selected
\* template.
C13_Witness ==
  /\ rdone /\ ~rthrown /\ rtrace.selected
  /\ ropts.includeDiagnostics # "none"
  /\ Len(rcatalog.canonical.candidates) = 0 /\ Len(rcatalog.alias.candidates) = 1
  /\ Len(revent.attempts) = 2
  /\ revent.attempts[2].selected

\* The value of the first of names that names an entry of the layout, the
\* empty text when none does.
FirstNamed(layout, names) ==
  LET present == { i \in 1..Len(names) : \E k \in 1..Len(layout) : layout[k].name = names[i] }
  IN IF present = {} THEN <<>>
     ELSE LET i == CHOOSE m \in present : \A o \in present : m <= o
              k == CHOOSE m \in 1..Len(layout) :
                     /\ layout[m].name = names[i]
                     /\ \A o \in 1..Len(layout) : layout[o].name = names[i] => o <= m
          IN layout[k].value

\* C14: for a RestartManager record with eventId 10010 and a selected template,
\* the args the template is applied to are the layout values named
\* FullPath|Application|AppPath|DisplayName, then Pid|ProcessId, then
\* Reason|Message|Status (first name present wins), whatever the order of the
\* entries in the layout.
C14_RestartManagerArgsByName ==
  (rdone /\ rtrace.selected /\ rrec.xmlEventId = 10010 /\ rrec.layout \in RestartLayouts) =>
    LET need == placeholderMax(ChosenTemplate(rrec, ropts, rcatalog))
        byName ==
          << FirstNamed(rrec.layout,
                        << <<"FullPath">>, <<"Application">>, <<"AppPath">>, <<"DisplayName">> >>),
             FirstNamed(rrec.layout, << <<"Pid">>, <<"ProcessId">> >>),
             FirstNamed(rrec.layout, << <<"Reason">>, <<"Message">>, <<"Status">> >>) >>
    IN need > 0 => rtrace.finalArgs = PadOrSlice(byName, need)

\* The entries of the layout whose value is not blank, and the first n of them.
NonBlank(layout) == { k \in 1..Len(layout) : Trim(layout[k].value) # <<>> }
FirstNonBlank(layout, n) ==
  { k \in NonBlank(layout) : Cardinality({ j \in NonBlank(layout) : j < k }) < n }

\* The entries of set rendered as Name=Value, or Value, in layout order, with
\* " | " between two of them.
RECURSIVE RenderedEntries(_, _)
RenderedEntries(layout, set) ==
  IF set = {} THEN <<>>
  ELSE LET k == CHOOSE m \in set : \A o \in set : m <= o
           item == IF layout[k].name # <<>>
                   THEN layout[k].name \o <<"=">> \o Trim(layout[k].value)
                   ELSE Trim(layout[k].value)
       IN IF set = {k} THEN item
          ELSE item \o <<" ", "|", " ">> \o RenderedEntries(layout, set \ {k})

C16_TemplateMissingStillFallback ==
  (rdone /\ ~rrec.actual) =>
    /\ ~rthrown
    /\ revent.xml = "<Event/>"
    /\ revent.final.present
    /\ revent.final.from = "fallback"

\* The text the %N passes of applyMessageTemplate leave of a template.
AfterPercentPasses(template, args) ==
  ReplaceNewline(ReplacePlain(ReplaceFormatted(template, 1, args), 1, args), 1)

\* text holds a {N} placeholder.
HasBraced(text) == ReplaceBraced(text, 1, <<>>) # text

\* The XML of record k rendered on a chunk just opened: nothing cached, the
\* cursor at 0.
FreshXml(k) == RenderRecordXml(k, 0, {}, {}, chunkImg, roots).xml

C17_LargeCountEmptySubstitutions ==
  (vxml # <<>> /\ vheader.le > SanityBound) =>
    /\ vcount = 0
    /\ \A k \in 1..Len(vxml) : vxml[k] = <<>>

\* C18: the diagnostics level alone determines what an emitted event keeps of
\* what was recorded: none keeps no attempt and no selection; basic keeps the
\* attempts, the selection without its args and at most the first warning; full
\* keeps the attempts, the selection with its args, every warning and every
\* error.
C18_DiagnosticsLevelDeterminesRetention ==
  (rdone /\ ~rthrown) =>
    LET level == ropts.includeDiagnostics IN
      /\ level = "none" =>
           (revent.attempts = <<>> /\ revent.selection = NoSelection)
      /\ level = "basic" =>
           /\ revent.attempts = rtrace.attempts
           /\ revent.selection.present = rtrace.selected
           /\ ~revent.selection.hasArgs /\ revent.selection.args = <<>>
           /\ Len(revent.warnings) <= 1
           /\ revent.warnings = SubSeq(rtrace.warnings, 1, Len(revent.warnings))
           /\ Len(rtrace.warnings) > 0 => Len(revent.warnings) = 1
      /\ level = "full" =>
           /\ revent.attempts = rtrace.attempts
           /\ revent.selection.present = rtrace.selected
           /\ revent.selection.hasArgs = rtrace.selected
           /\ revent.warnings = rtrace.warnings
           /\ revent.errors = rtrace.errors

\* An event emitted at the full level with a selection carrying its args and a
\* warning.
C18_Witness ==
  /\ rdone /\ ~rthrown
  /\ ropts.includeDiagnostics = "full"
  /\ revent.selection.hasArgs
  /\ Len(revent.warnings) > 0

\* The catalog answers the canonical name with exactly one candidate, and the
\* number of its placeholders differs from the number of layout entries.
SingleMismatch ==
  /\ ResolutionAttempted(rrec, ropts)
  /\ ~rcatalog.canonical.fails
  /\ Len(rcatalog.canonical.candidates) = 1
  /\ placeholderMax(rcatalog.canonical.candidates[1]) # Len(rrec.layout)

\* C21: when the catalog provides a single candidate whose placeholder count
\* does not match the layout count, the template is still used for the message
\* and a warning is recorded in messageResolution.warnings.
C21_SingleMismatchUsedWithWarning ==
  (rdone /\ SingleMismatch /\ ropts.includeDiagnostics = "full") =>
    /\ ~rthrown
    /\ rlookup.chosen = rcatalog.canonical.candidates[1]
    /\ revent.final.present /\ revent.final.from = "template"
    /\ Len(revent.warnings) > 0

\* C22: timestamp_as_date of a record whose FILETIME field is 0 yields the Unix
\* epoch (1970-01-01T00:00:00Z).
C22_ZeroFiletimeIsUnixEpoch ==
  (tcall = "timestampAsDate" /\ tfiletime = ZeroFiletime) => tdate = UnixEpoch

\* The children of the root among the logged nodes, and the sum of the declared
\* lengths of those that are not EndOfStream nodes.
RECURSIVE DeclaredChildrenLength(_, _)
DeclaredChildrenLength(log, i) ==
  IF i = 0 THEN 0
  ELSE DeclaredChildrenLength(log, i - 1)
         + (IF log[i].depth = 0 /\ log[i].kind # "EndOfStream" THEN log[i].length ELSE 0)

\* C23: the substitution count is read at record_data_start + D - 1 at top
\* level and at base_offset + D in embedded BXML, D the sum of the declared
\* lengths of the parsed children other than EndOfStream.
C23_CountAtDeclaredLength ==
  /\ (bmode = "topDone" /\ bcount # NoCount) =>
       bcount = StreamBase + DeclaredChildrenLength(blog, Len(blog)) - 1
  /\ (bmode = "embeddedDone" /\ bcount # NoCount) =>
       bcount = StreamBase + DeclaredChildrenLength(blog, Len(blog))

\* The node at index i of the log is a TemplateInstance read by the token loop
\* of the embedded parse.
EmbeddedTemplateInstance(i) ==
  /\ bmode \in {"embedded", "embeddedDone"}
  /\ blog[i].kind = "TemplateInstance"
  /\ blog[i].depth = 0

ResidentInstance(i) ==
  /\ blog[i].kind = "TemplateInstance"
  /\ isResidentTemplate(u32leAt(bimg, blog[i].start + 6), blog[i].start)

\* The cursor C25 states for the node at index i: past the resident bytes at
\* top level, after the 10 bytes of the token in embedded BXML.
StatedCursor(i) ==
  IF EmbeddedTemplateInstance(i)
  THEN blog[i].start + 10
  ELSE blog[i].start + 10 + 24
         + u32leAt(bimg, chunkOffset + u32leAt(bimg, blog[i].start + 6) + 20)

C26_ElementStaysInRegion ==
  \A i \in DOMAIN blog :
    blog[i].kind = "OpenStartElement" => blog[i].after <= blog[i].regionEnd

\* C27: a CDataSection whose length field is L has the declared length
\* 1 + 2 + 2 * L, and the cursor after it is at node_start + 1 + 2 + 2 * L.
C27_CDataSpansItsText ==
  \A i \in DOMAIN blog :
    blog[i].kind = "CDataSection" =>
      /\ blog[i].length = 1 + 2 + 2 * u16leAt(bimg, blog[i].start + 1)
      /\ blog[i].after = blog[i].start + 1 + 2 + 2 * u16leAt(bimg, blog[i].start + 1)

\* The next_offset chain of the image runs in a cycle through 600 and 700.
ChainCycle ==
  /\ simg.next[600] = 700
  /\ simg.next[700] = 600
  /\ simg.nextRecordOffset = 65536

\* C28: loading the string table terminates for every chunk content, cycles of
\* next_offset included; no offset is parsed more than once, and a parsed chain
\* offset is above 0 and below next_record_offset.
C28_LoadStringsTerminates ==
  /\ <>(sphase \in {"idle", "done", "thrown"})
  /\ [](\A o \in DOMAIN sparses :
          /\ sparses[o] <= 1
          /\ (sparses[o] = 1 /\ o # 0) => (o > 0 /\ o < simg.nextRecordOffset))

C28_Witness ==
  /\ ChainCycle
  /\ sphase = "done"
  /\ sparses[600] = 1
  /\ sparses[700] = 1
  /\ simg.heads[1] = 600
  /\ simg.heads[2] = 700

\* The step yields a record: it is appended to the records yielded.
YieldsRecord == Len(kyielded') = Len(kyielded) + 1

\* The record the step yields has size > 0, starts in
\* [chunk offset + 0x200, chunk offset + next_record_offset), and starts after
\* the record yielded before it.
YieldedInOrder ==
  LET y == kyielded'[Len(kyielded')]
  IN /\ kchunk.slot[y].size > 0
     /\ y >= FirstRecordOffset
     /\ y < kchunk.nextRecordOffset
     /\ Len(kyielded) > 0 => kyielded[Len(kyielded)] < y

\* C29: the iteration over the records of a chunk ends, and every record it
\* yields has size > 0, starts at a greater offset than the record yielded
\* before it, and starts inside [chunk offset + 0x200, chunk offset +
\* next_record_offset).
C29_RecordsTerminateInOrder ==
  /\ [][YieldsRecord => YieldedInOrder]_vars
  /\ <>(kpc \in {"idle", "chunkDone", "error"})

\* Two records were yielded and the iteration has returned at a record of size 0.
C29_Witness ==
  /\ Len(kyielded) = 2
  /\ kpc = "chunkDone"
  /\ krec \in DOMAIN kchunk.slot
  /\ kchunk.slot[krec].magic
  /\ kchunk.slot[krec].size = 0
  /\ krec < kchunk.nextRecordOffset

\* C30: for the same query, forEach(fn) passes to fn exactly the events that
\* toArray() returns, in the same order; with last(n) set both deliver at most
\* n events.
C30_ForEachDeliversToArray ==
  qdone = {"toArray", "forEach"} =>
    /\ qpassed = qarray
    /\ qsettings.last > 0 => (Len(qpassed) <= qsettings.last /\ Len(qarray) <= qsettings.last)

====
